---- MODULE Spec2Model ----
(***************************************************************************)
(* A model of copacetic's multi-platform patch orchestration: the Trivy    *)
(* report parser (pkg/report/trivy.go), platform discovery and the OCI     *)
(* layout assembler and exporter (pkg/buildkit), the frontend's            *)
(* per-platform pipeline (pkg/frontend), the Node package manager          *)
(* (pkg/pkgmgr/npm.go and its scripts), the dpkg reconciliation script and *)
(* the report matching of pkg/manifest.                                    *)
(*                                                                         *)
(* Strings the code splits, trims or concatenates are sequences of         *)
(* one-character strings, so that strings.Split, strings.TrimSpace,        *)
(* strings.HasSuffix and "+" are computed, not assumed.                    *)
(***************************************************************************)
EXTENDS Integers, Sequences, FiniteSets, TLC

VARIABLES
    \* extractAppropriateFixedVersion: its two arguments, its result
    fxInstalled, fxFixed, fxSelected, fxPc,
    \* TrivyParser.Parse: the report file, the returned manifest and error
    report, parseOut, parsePc,
    \* npmManager.InstallUpdates: the manager's config.ImageState, the call's
    \* arguments, what it returns, and the exit status of the returned state's
    \* last step once the build engine has run it; npmCannotUpdate is the set
    \* of packages npm is unable to update in the image
    npmImageState, npmManifest, npmIgnoreErrors, npmCannotUpdate, npmOut, npmExit, npmPc,
    \* buildkit.DiscoverPlatforms: whether the image reference parses, what the
    \* local daemon and the remote registry answer for it, the report directory
    \* argument and its listing, and what the call returns
    discRefOK, discLocal, discRemote, discReportDir, discListing, discOut, discPc,
    \* buildkit.CreateOCILayoutFromResults: its results and platforms arguments,
    \* whether the output directory can be made and a BuildKit client obtained,
    \* the platform->image map, the per-platform states built for the export,
    \* and the error returned
    asmResults, asmPlatforms, asmMkdirOK, asmClientOK,
    platformImages, platformStates, asmErr, asmPc,
    \* Frontend.buildPatchedImage: opts (Report, IgnoreError), the platform
    \* argument, the report location on disk, what the collaborators answer
    \* (set-up, report parser, package manager), the local variables
    \* reportPath and um, the calls made so far, and the returned values
    bpOpts, bpPlatform, bpIsDir, bpDirFiles, bpSetupOK, bpParsed, bpCannotUpdate, bpFatal,
    bpReportPath, bpUm, bpTrace, bpResult, bpPc,
    \* The matching loop of DiscoverPlatforms, called on the image platforms
    \* and the report platforms, on a reordering of both, and once more on the
    \* platforms the first call returned
    mtImage, mtReports, mtOut, mtPermOut, mtAgainOut, mtPc,
    \* The local-then-remote resolution of GetMediaType and of
    \* DiscoverPlatformsFromReference: the function called, whether the
    \* reference parses, what the local daemon and the registry answer, the
    \* descriptor obtained, the lookups made so far, and the returned values
    rsFn, rsRefOK, rsLocal, rsRemote, rsDesc, rsTrace, rsOut, rsPc,
    \* The status.d split loop of apt_get_download_all_pkgs.sh: the lines of
    \* the status file and the files written to the output directory
    stLines, stFragments, stPc,
    \* apt_get_download_all_pkgs.sh as a whole: IGNORE_ERRORS, the packages
    \* asked for, the packages on which the download, the install and the
    \* fragment write fail, what each step leaves behind, the steps run, the
    \* exit status, and the packages the result records as failed
    dkIgnoreErrors, dkPackages, dkDownloadFails, dkInstallFails, dkWriteFails,
    dkDebs, dkInstalled, dkFragments, dkManifest, dkTrace, dkExit, dkFailed, dkPc,
    \* The Node manager on one image: which directories exist and hold
    \* package.json and package-lock.json, what find prints, the names quoted in
    \* package.json, the packages to update, the manager run (the npm step of
    \* InstallUpdates or the three scripts), what detection found, the npm
    \* commands run so far, and the exit status
    njFs, njFind, njPkgJson, njUpdates, njMode, njLocations, njSearched, njCandidates, njNextPkg, njTrace, njExit, njPc,
    \* solveMultiPlatformOCI: the number of platform states, what the output
    \* directory held before the call, the archive the build engine exports,
    \* the operation that fails (if one does), the output directory and the
    \* staging archive on disk, the output directory as the first call left it,
    \* and the error returned
    ociStates, ociPrior, ociArchive, ociFail, ociDir, ociTar, ociFirst, ociErr, ociPc,
    \* manifest.DiscoverPlatforms: what discoverImagePlatforms answers, the
    \* report directory argument and what is on disk there, and what the call
    \* returns
    mfImage, mfReportDir, mfOut, mfPc,
    \* The reconciliation script of two platforms, their commands interleaved:
    \* who last wrote each path of the disk, each platform's position in the
    \* script, and the paths read, written and deleted so far
    srDisk, srPc, srTrace

fxVars == <<fxInstalled, fxFixed, fxSelected, fxPc>>
parseVars == <<report, parseOut, parsePc>>
npmVars ==
    <<npmImageState, npmManifest, npmIgnoreErrors, npmCannotUpdate, npmOut, npmExit, npmPc>>

discVars ==
    <<discRefOK, discLocal, discRemote, discReportDir, discListing, discOut, discPc>>

asmVars ==
    <<asmResults, asmPlatforms, asmMkdirOK, asmClientOK,
      platformImages, platformStates, asmErr, asmPc>>

bpInputs ==
    <<bpOpts, bpPlatform, bpIsDir, bpDirFiles, bpSetupOK, bpParsed, bpCannotUpdate, bpFatal>>
bpVars == <<bpInputs, bpReportPath, bpUm, bpTrace, bpResult, bpPc>>

mtVars == <<mtImage, mtReports, mtOut, mtPermOut, mtAgainOut, mtPc>>

rsVars == <<rsFn, rsRefOK, rsLocal, rsRemote, rsDesc, rsTrace, rsOut, rsPc>>

stVars == <<stLines, stFragments, stPc>>
dkInputs == <<dkIgnoreErrors, dkPackages, dkDownloadFails, dkInstallFails, dkWriteFails>>
dkVars ==
    <<dkInputs, dkDebs, dkInstalled, dkFragments, dkManifest, dkTrace, dkExit, dkFailed, dkPc>>

njVars ==
    <<njFs, njFind, njPkgJson, njUpdates, njMode, njLocations, njSearched, njCandidates, njNextPkg, njTrace, njExit, njPc>>

ociVars ==
    <<ociStates, ociPrior, ociArchive, ociFail, ociDir, ociTar, ociFirst, ociErr, ociPc>>

mfVars ==
    <<mfImage, mfReportDir, mfOut, mfPc>>

srVars ==
    <<srDisk, srPc, srTrace>>

vars ==
    <<fxVars, parseVars, npmVars, discVars, asmVars, bpVars, mtVars, rsVars, stVars, dkVars,
      njVars,
      ociVars,
      mfVars,
      srVars>>

(***************************************************************************)
(* Bounds                                                                  *)
(***************************************************************************)
MaxFixedLen == 4
MaxInstalledLen == 1
MaxResults == 2
MaxUpdates == 2
MaxManifests == 2
MaxPlatforms == 2
MaxSections == 3
MaxReports == 2
MaxLines == 5

(***************************************************************************)
(* The variables of a component that a specification does not exercise     *)
(***************************************************************************)
FxIdle ==
    /\ fxInstalled = <<>>
    /\ fxFixed = <<>>
    /\ fxSelected = <<>>
    /\ fxPc = "idle"

ParseIdle ==
    /\ report = [Kind |-> "json", Results |-> <<>>]
    /\ parseOut = [Manifest |-> <<>>, Err |-> ""]
    /\ parsePc = "idle"

NpmIdle ==
    /\ npmImageState = <<>>
    /\ npmManifest = <<>>
    /\ npmIgnoreErrors = FALSE
    /\ npmCannotUpdate = {}
    /\ npmOut = [State |-> <<>>, ErrPkgs |-> <<>>, Err |-> ""]
    /\ npmExit = 0
    /\ npmPc = "idle"

DiscIdle ==
    /\ discRefOK = TRUE
    /\ discLocal = <<>>
    /\ discRemote = <<>>
    /\ discReportDir = <<>>
    /\ discListing = [Err |-> "", Entries |-> <<>>]
    /\ discOut = [Platforms |-> <<>>, Err |-> ""]
    /\ discPc = "idle"

AsmIdle ==
    /\ asmResults = <<>>
    /\ asmPlatforms = <<>>
    /\ asmMkdirOK = TRUE
    /\ asmClientOK = TRUE
    /\ platformImages = <<>>
    /\ platformStates = <<>>
    /\ asmErr = ""
    /\ asmPc = "idle"

BpIdle ==
    /\ bpOpts = [Report |-> <<>>, IgnoreError |-> FALSE]
    /\ bpPlatform = <<>>
    /\ bpIsDir = FALSE
    /\ bpDirFiles = {}
    /\ bpSetupOK = TRUE
    /\ bpParsed = [Err |-> "", Manifest |-> <<>>]
    /\ bpCannotUpdate = {}
    /\ bpFatal = FALSE
    /\ bpReportPath = <<>>
    /\ bpUm = <<>>
    /\ bpTrace = <<>>
    /\ bpResult = [State |-> <<>>, Err |-> "", FailedPackages |-> <<>>]
    /\ bpPc = "idle"

MtIdle ==
    /\ mtImage = <<>>
    /\ mtReports = <<>>
    /\ mtOut = <<>>
    /\ mtPermOut = <<>>
    /\ mtAgainOut = <<>>
    /\ mtPc = "idle"

RsIdle ==
    /\ rsFn = ""
    /\ rsRefOK = TRUE
    /\ rsLocal = <<>>
    /\ rsRemote = <<>>
    /\ rsDesc = <<>>
    /\ rsTrace = <<>>
    /\ rsOut = [MediaType |-> "", Platforms |-> <<>>, Err |-> ""]
    /\ rsPc = "idle"

StIdle ==
    /\ stLines = <<>>
    /\ stFragments = <<>>
    /\ stPc = "idle"

DkIdle ==
    /\ dkIgnoreErrors = FALSE
    /\ dkPackages = {}
    /\ dkDownloadFails = {}
    /\ dkInstallFails = {}
    /\ dkWriteFails = {}
    /\ dkDebs = {}
    /\ dkInstalled = {}
    /\ dkFragments = {}
    /\ dkManifest = {}
    /\ dkTrace = <<>>
    /\ dkExit = 0
    /\ dkFailed = {}
    /\ dkPc = "idle"

NjIdle ==
    /\ njFs = [Dirs |-> {}, PackageJson |-> {}, Lock |-> {}]
    /\ njFind = <<>>
    /\ njPkgJson = [Dependencies |-> {}, Keywords |-> {}]
    /\ njUpdates = <<>>
    /\ njMode = ""
    /\ njLocations = <<>>
    /\ njSearched = FALSE
    /\ njCandidates = <<>>
    /\ njNextPkg = 0
    /\ njTrace = <<>>
    /\ njExit = 0
    /\ njPc = "idle"

OciIdle ==
    /\ ociStates = 0
    /\ ociPrior = [Exists |-> FALSE, Entries |-> {}]
    /\ ociArchive = <<>>
    /\ ociFail = [At |-> "none", Entry |-> 0]
    /\ ociDir = [Exists |-> FALSE, Entries |-> {}]
    /\ ociTar = "absent"
    /\ ociFirst = [Exists |-> FALSE, Entries |-> {}]
    /\ ociErr = ""
    /\ ociPc = "idle"

MfIdle ==
    /\ mfImage = [Platforms |-> <<>>, Err |-> ""]
    /\ mfReportDir = [Path |-> "", Kind |-> "dir", Entries |-> <<>>]
    /\ mfOut = [Platforms |-> <<>>, Err |-> ""]
    /\ mfPc = "idle"

SrIdle ==
    /\ srDisk = <<>>
    /\ srPc = <<>>
    /\ srTrace = <<>>

(***************************************************************************)
(* Go string helpers                                                       *)
(***************************************************************************)
\* All sequences over S of length 0..n
SeqsUpTo(S, n) == UNION {[1..k -> S] : k \in 0..n}

\* strings.Contains(s, c) for a one-character c
Contains(s, c) == \E i \in 1..Len(s) : s[i] = c

\* strings.Index(s, c) for a one-character c, 1-based, 0 when absent
IndexOf(s, c) ==
    IF Contains(s, c)
    THEN CHOOSE i \in 1..Len(s) : s[i] = c /\ \A j \in 1..(i-1) : s[j] # c
    ELSE 0

\* strings.Split(s, sep) for a one-character sep: n separators give n+1 pieces,
\* and a string without the separator (the empty string too) gives <<s>>.
RECURSIVE Split(_, _)
Split(s, sep) ==
    IF ~Contains(s, sep)
    THEN <<s>>
    ELSE LET i == IndexOf(s, sep)
         IN  <<SubSeq(s, 1, i - 1)>> \o Split(SubSeq(s, i + 1, Len(s)), sep)

RECURSIVE TrimLeft(_)
TrimLeft(s) ==
    IF Len(s) > 0 /\ s[1] = " " THEN TrimLeft(Tail(s)) ELSE s

RECURSIVE TrimRight(_)
TrimRight(s) ==
    IF Len(s) > 0 /\ s[Len(s)] = " " THEN TrimRight(SubSeq(s, 1, Len(s) - 1)) ELSE s

\* strings.TrimSpace(s); the only white space of the model's alphabet is " "
TrimSpace(s) == TrimRight(TrimLeft(s))

\* strings.HasSuffix(s, suffix)
HasSuffix(s, suffix) ==
    /\ Len(suffix) <= Len(s)
    /\ SubSeq(s, Len(s) - Len(suffix) + 1, Len(s)) = suffix

(***************************************************************************)
(* pkg/report/trivy.go: extractAppropriateFixedVersion                     *)
(***************************************************************************)
\* The loop of lines 52-58 from candidate i on: the first trimmed candidate
\* whose first "."-piece is installedMajor; lines 60-62 when there is none.
RECURSIVE SameMajorFrom(_, _, _)
SameMajorFrom(versions, installedMajor, i) ==
    IF i > Len(versions)
    THEN TrimSpace(versions[1])
    ELSE LET v == TrimSpace(versions[i])
             fixedParts == Split(v, ".")
         IN  IF Len(fixedParts) > 0 /\ fixedParts[1] = installedMajor
             THEN v
             ELSE SameMajorFrom(versions, installedMajor, i + 1)

\* A plausible slip: the major-version preference is lost and the first listed
\* candidate is always taken.
extractFirstFixedVersion(installedVersion, fixedVersions) ==
    TrimSpace(Split(fixedVersions, ",")[1])

extractAppropriateFixedVersion(installedVersion, fixedVersions) ==
    IF ~Contains(fixedVersions, ",")
    THEN TrimSpace(fixedVersions)
    ELSE LET versions == Split(fixedVersions, ",")
             installedParts == Split(installedVersion, ".")
         IN  IF Len(installedParts) = 0
             THEN TrimSpace(versions[1])
             ELSE SameMajorFrom(versions, installedParts[1], 1)

(***************************************************************************)
(* pkg/report/trivy.go: TrivyParser.Parse                                  *)
(***************************************************************************)
ClassOSPkg == "os-pkgs"
ClassLangPkg == "lang-pkgs"

\* The result types Parse takes for Node.js results (line 84)
NodeTypes == {"npm", "nodejs", "yarn", "pnpm", "node-pkg"}

\* A plausible slip: one of the equivalent Node tool names is left out.
IsNodeTypeNpmOnly(t) == t = "npm"

IsNodeType(t) == t \in NodeTypes

\* A plausible slip: a second os-pkgs result silently replaces the first.
RECURSIVE SelectResultsLastWins(_, _, _, _)
SelectResultsLastWins(results, i, osResult, nodeResult) ==
    IF i > Len(results)
    THEN [Err |-> "", osResult |-> osResult, nodeResult |-> nodeResult]
    ELSE LET r == results[i]
         IN  IF r.Class = ClassOSPkg
             THEN SelectResultsLastWins(results, i + 1, <<r>>, nodeResult)
             ELSE IF r.Class = ClassLangPkg /\ IsNodeType(r.Type)
                  THEN SelectResultsLastWins(results, i + 1, osResult, <<r>>)
                  ELSE SelectResultsLastWins(results, i + 1, osResult, nodeResult)

\* Lines 75-89: the scan of report.Results from index i on. A *Result is <<>>
\* when nil and <<r>> otherwise. A second os-pkgs result is an error; a Node
\* result replaces the one held.
RECURSIVE SelectResults(_, _, _, _)
SelectResults(results, i, osResult, nodeResult) ==
    IF i > Len(results)
    THEN [Err |-> "", osResult |-> osResult, nodeResult |-> nodeResult]
    ELSE LET r == results[i]
         IN  IF r.Class = ClassOSPkg
             THEN IF osResult # <<>>
                  THEN [Err |-> "unexpected multiple results for os-pkgs",
                        osResult |-> osResult, nodeResult |-> nodeResult]
                  ELSE SelectResults(results, i + 1, <<r>>, nodeResult)
             ELSE IF r.Class = ClassLangPkg /\ IsNodeType(r.Type)
                  THEN SelectResults(results, i + 1, osResult, <<r>>)
                  ELSE SelectResults(results, i + 1, osResult, nodeResult)

UpdatePackage(vuln, fixedVersion) ==
    [Name |-> vuln.PkgName,
     InstalledVersion |-> vuln.InstalledVersion,
     FixedVersion |-> fixedVersion,
     VulnerabilityID |-> vuln.VulnerabilityID]

\* A plausible slip: the test of the fixed version is lost and every
\* vulnerability becomes an update.
RECURSIVE OSUpdatesOfAll(_)
OSUpdatesOfAll(vulns) ==
    IF vulns = <<>>
    THEN <<>>
    ELSE <<UpdatePackage(Head(vulns), Head(vulns).FixedVersion)>>
         \o OSUpdatesOfAll(Tail(vulns))

\* Lines 110-123: updates.Updates from the os result's vulnerabilities
RECURSIVE OSUpdatesOf(_)
OSUpdatesOf(vulns) ==
    IF vulns = <<>>
    THEN <<>>
    ELSE LET vuln == Head(vulns)
         IN  (IF vuln.FixedVersion # <<>>
              THEN <<UpdatePackage(vuln, vuln.FixedVersion)>>
              ELSE <<>>) \o OSUpdatesOf(Tail(vulns))

\* Lines 126-143: updates.NodeUpdates from the Node result's vulnerabilities
RECURSIVE NodeUpdatesOf(_)
NodeUpdatesOf(vulns) ==
    IF vulns = <<>>
    THEN <<>>
    ELSE LET vuln == Head(vulns)
             fixedVersion ==
                 extractAppropriateFixedVersion(vuln.InstalledVersion, vuln.FixedVersion)
         IN  (IF vuln.FixedVersion # <<>> /\ fixedVersion # <<>>
              THEN <<UpdatePackage(vuln, fixedVersion)>>
              ELSE <<>>) \o NodeUpdatesOf(Tail(vulns))

\* A returned *UpdateManifest is <<>> when nil and <<m>> otherwise.
ParseFailure(err) == [Manifest |-> <<>>, Err |-> err]

\* Lines 148-151, as a plausible slip would have them: the report is refused
\* as soon as one of the two result classes is missing.
NoSupportedResultEitherMissing(osResult, nodeResult) ==
    osResult = <<>> \/ nodeResult = <<>>

\* Lines 148-151: no result of any supported class
NoSupportedResult(osResult, nodeResult) ==
    osResult = <<>> /\ nodeResult = <<>>

Parse(file) ==
    IF file.Kind = "unreadable" THEN ParseFailure("read error")
    ELSE IF file.Kind = "malformed" THEN ParseFailure("unsupported report format")
    ELSE LET sel == SelectResults(file.Results, 1, <<>>, <<>>)
         IN  IF sel.Err # "" THEN ParseFailure(sel.Err)
             ELSE IF NoSupportedResult(sel.osResult, sel.nodeResult)
             THEN ParseFailure("no scanning results for os-pkgs or node-pkg found")
             ELSE [Manifest |->
                      <<[Updates |->
                            IF sel.osResult # <<>>
                            THEN OSUpdatesOf(sel.osResult[1].Vulnerabilities)
                            ELSE <<>>,
                         NodeUpdates |->
                            IF sel.nodeResult # <<>>
                            THEN NodeUpdatesOf(sel.nodeResult[1].Vulnerabilities)
                            ELSE <<>>]>>,
                   Err |-> ""]

(***************************************************************************)
(* Specification SpecParse: Parse on every report within the bounds.       *)
(***************************************************************************)
Vuln(name, installed, fixed, id) ==
    [PkgName |-> name, InstalledVersion |-> installed,
     FixedVersion |-> fixed, VulnerabilityID |-> id]

VulnNoFix == Vuln("libc", <<"1">>, <<>>, "CVE-1")
VulnOneFix == Vuln("zlib", <<"1">>, <<"1", ".", "1">>, "CVE-2")
VulnManyFix == Vuln("ansi-regex", <<"2">>, <<"1", ",", "2">>, "CVE-3")
VulnOtherFix == Vuln("lodash", <<"1">>, <<"2">>, "CVE-4")
\* A fixed-version field whose first candidate is empty
VulnBlankFix == Vuln("minimist", <<"1">>, <<",", "2">>, "CVE-5")

\* The vulnerability lists of a result section
VulnLists ==
    {<<>>, <<VulnNoFix>>, <<VulnOneFix>>, <<VulnManyFix>>, <<VulnOtherFix>>,
     <<VulnNoFix, VulnOneFix>>, <<VulnOneFix, VulnManyFix>>, <<VulnBlankFix, VulnOneFix>>}

\* The (class, type) pairs of a result section
ResultKinds ==
    {<<ClassOSPkg, "debian">>, <<ClassLangPkg, "npm">>, <<ClassLangPkg, "yarn">>,
     <<ClassLangPkg, "pip">>}

ResultSections ==
    {[Class |-> k[1], Type |-> k[2], Vulnerabilities |-> v] :
        k \in ResultKinds, v \in VulnLists}

ReportFiles ==
    {[Kind |-> "unreadable", Results |-> <<>>], [Kind |-> "malformed", Results |-> <<>>]}
    \cup {[Kind |-> "json", Results |-> rs] : rs \in SeqsUpTo(ResultSections, MaxResults)}

ParseInit ==
    /\ NjIdle
    /\ OciIdle
    /\ MfIdle
    /\ SrIdle
    /\ StIdle
    /\ DkIdle
    /\ RsIdle
    /\ MtIdle
    /\ BpIdle
    /\ AsmIdle
    /\ FxIdle
    /\ NpmIdle
    /\ DiscIdle
    /\ report \in ReportFiles
    /\ parseOut = ParseFailure("")
    /\ parsePc = "call"

ParseCall ==
    /\ parsePc = "call"
    /\ parseOut' = Parse(report)
    /\ parsePc' = "done"
    /\ UNCHANGED report
    /\ UNCHANGED <<fxVars, npmVars, discVars, asmVars, bpVars, mtVars, rsVars, stVars, dkVars, njVars, ociVars, mfVars, srVars>>

ParseNext == ParseCall

SpecParse == ParseInit /\ [][ParseNext]_vars

\* The result sections of a report that are of a supported class
IsOSSection(r) == r.Class = ClassOSPkg
IsNodeSection(r) == r.Class = ClassLangPkg /\ r.Type \in NodeTypes
SectionsWhere(results, P(_)) == {i \in 1..Len(results) : P(results[i])}
Fixable(r) == \E j \in 1..Len(r.Vulnerabilities) : r.Vulnerabilities[j].FixedVersion # <<>>
SupportedSection(r) == IsOSSection(r) \/ IsNodeSection(r)
NothingFixable(results) ==
    \A i \in SectionsWhere(results, SupportedSection) : ~Fixable(results[i])

\* What the Node sections of a report yield when none is lost: the fixable
\* entries of every Node section, in section order.
RECURSIVE MergedNodeUpdates(_)
MergedNodeUpdates(results) ==
    IF results = <<>>
    THEN <<>>
    ELSE (IF IsNodeSection(Head(results))
          THEN NodeUpdatesOf(Head(results).Vulnerabilities)
          ELSE <<>>) \o MergedNodeUpdates(Tail(results))

\* C9: the Node update list of a returned manifest holds the fixable entries
\* of all the report's Node sections, merged in first-seen order.
NodeSectionsMerged ==
    (parsePc = "done" /\ parseOut.Manifest # <<>>) =>
        parseOut.Manifest[1].NodeUpdates = MergedNodeUpdates(report.Results)

\* C10 as stated: with nothing fixable in any class, Parse returns an empty
\* manifest and no error when some supported section exists, and an error
\* and no manifest when none does.
EmptyManifestOrErrorAsStated ==
    (parsePc = "done" /\ report.Kind = "json" /\ NothingFixable(report.Results)) =>
        IF SectionsWhere(report.Results, SupportedSection) # {}
        THEN /\ parseOut.Err = ""
             /\ parseOut.Manifest # <<>>
             /\ parseOut.Manifest[1].Updates = <<>>
             /\ parseOut.Manifest[1].NodeUpdates = <<>>
        ELSE /\ parseOut.Err # ""
             /\ parseOut.Manifest = <<>>

\* C10, amended: the same, for reports with at most one OS-package section.
EmptyManifestOrError ==
    (/\ parsePc = "done"
     /\ report.Kind = "json"
     /\ NothingFixable(report.Results)
     /\ Cardinality(SectionsWhere(report.Results, IsOSSection)) <= 1) =>
        IF SectionsWhere(report.Results, SupportedSection) # {}
        THEN /\ parseOut.Err = ""
             /\ parseOut.Manifest # <<>>
             /\ parseOut.Manifest[1].Updates = <<>>
             /\ parseOut.Manifest[1].NodeUpdates = <<>>
        ELSE /\ parseOut.Err # ""
             /\ parseOut.Manifest = <<>>

\* C10 witness: a report whose only supported section is a Node section with
\* an unfixable vulnerability is parsed into an empty manifest.
EmptyManifestWitness ==
    /\ parsePc = "done"
    /\ report.Kind = "json"
    /\ NothingFixable(report.Results)
    /\ SectionsWhere(report.Results, IsOSSection) = {}
    /\ \E i \in SectionsWhere(report.Results, IsNodeSection) :
           report.Results[i].Vulnerabilities # <<>>
    /\ parseOut.Err = ""
    /\ parseOut.Manifest = <<[Updates |-> <<>>, NodeUpdates |-> <<>>]>>

\* The sections Parse has selected when it returns a manifest
Selected == SelectResults(report.Results, 1, <<>>, <<>>)
SelectedVulns(sel) == IF sel = <<>> THEN <<>> ELSE sel[1].Vulnerabilities

\* An entry or a vulnerability without its fixed version
Package(x) ==
    [Name |-> IF "PkgName" \in DOMAIN x THEN x.PkgName ELSE x.Name,
     InstalledVersion |-> x.InstalledVersion,
     VulnerabilityID |-> x.VulnerabilityID]
Packages(xs) == [i \in 1..Len(xs) |-> Package(xs[i])]

HasFixedVersion(vuln) == vuln.FixedVersion # <<>>
HasSelectedFixedVersion(vuln) ==
    /\ vuln.FixedVersion # <<>>
    /\ extractAppropriateFixedVersion(vuln.InstalledVersion, vuln.FixedVersion) # <<>>

NoEmptyFixedVersion(updates) ==
    \A i \in 1..Len(updates) : updates[i].FixedVersion # <<>>

\* C12 as stated: every entry has a non-empty fixed version, and the entries
\* of each list are, in report order, exactly the vulnerabilities of the
\* selected section whose fixed-version field is non-empty.
OneEntryPerFixedVersion ==
    (parsePc = "done" /\ parseOut.Manifest # <<>>) =>
        /\ NoEmptyFixedVersion(parseOut.Manifest[1].Updates)
        /\ NoEmptyFixedVersion(parseOut.Manifest[1].NodeUpdates)
        /\ Packages(parseOut.Manifest[1].Updates) =
               Packages(SelectSeq(SelectedVulns(Selected.osResult), HasFixedVersion))
        /\ Packages(parseOut.Manifest[1].NodeUpdates) =
               Packages(SelectSeq(SelectedVulns(Selected.nodeResult), HasFixedVersion))

\* C12, amended: the same, except that a vulnerability of the Node section
\* yields an entry only when the version selected from its field is non-empty.
OneEntryPerSelectedFixedVersion ==
    (parsePc = "done" /\ parseOut.Manifest # <<>>) =>
        /\ NoEmptyFixedVersion(parseOut.Manifest[1].Updates)
        /\ NoEmptyFixedVersion(parseOut.Manifest[1].NodeUpdates)
        /\ Packages(parseOut.Manifest[1].Updates) =
               Packages(SelectSeq(SelectedVulns(Selected.osResult), HasFixedVersion))
        /\ Packages(parseOut.Manifest[1].NodeUpdates) =
               Packages(SelectSeq(SelectedVulns(Selected.nodeResult), HasSelectedFixedVersion))

\* C12 witness: a Node section with a field whose selected version is empty,
\* followed by a fixable vulnerability, gives the one entry of the latter;
\* and an OS section with an unfixable vulnerability beside a fixable one.
OneEntryWitness ==
    /\ parsePc = "done"
    /\ parseOut.Err = ""
    /\ parseOut.Manifest # <<>>
    /\ SelectedVulns(Selected.nodeResult) = <<VulnBlankFix, VulnOneFix>>
    /\ Packages(parseOut.Manifest[1].NodeUpdates) = <<Package(VulnOneFix)>>
    /\ SelectedVulns(Selected.osResult) = <<VulnNoFix, VulnOneFix>>
    /\ Packages(parseOut.Manifest[1].Updates) = <<Package(VulnOneFix)>>

(***************************************************************************)
(* Specification SpecSections: Parse on reports of up to MaxSections       *)
(* result sections, so that sections of one class occur at any distance.   *)
(***************************************************************************)
SectionVulnLists == {<<>>, <<VulnOneFix>>}

ShortSections ==
    {[Class |-> k[1], Type |-> k[2], Vulnerabilities |-> v] :
        k \in ResultKinds, v \in SectionVulnLists}

SectionsInit ==
    /\ NjIdle
    /\ OciIdle
    /\ MfIdle
    /\ SrIdle
    /\ StIdle
    /\ DkIdle
    /\ RsIdle
    /\ MtIdle
    /\ BpIdle
    /\ AsmIdle
    /\ FxIdle
    /\ NpmIdle
    /\ DiscIdle
    /\ report \in {[Kind |-> "json", Results |-> rs] : rs \in SeqsUpTo(ShortSections, MaxSections)}
    /\ parseOut = ParseFailure("")
    /\ parsePc = "call"

SpecSections == SectionsInit /\ [][ParseNext]_vars

\* C11: a report with two or more os-pkgs result sections, at any positions,
\* makes Parse fail with the multiple-results error and return no manifest.
MultipleOSResultsRefused ==
    (/\ parsePc = "done"
     /\ report.Kind = "json"
     /\ Cardinality(SectionsWhere(report.Results, IsOSSection)) >= 2) =>
        /\ parseOut.Err = "unexpected multiple results for os-pkgs"
        /\ parseOut.Manifest = <<>>

\* C11 witness: two os-pkgs sections with a Node section between them
MultipleOSResultsWitness ==
    /\ parsePc = "done"
    /\ Len(report.Results) = 3
    /\ IsOSSection(report.Results[1])
    /\ IsNodeSection(report.Results[2])
    /\ IsOSSection(report.Results[3])
    /\ parseOut.Err = "unexpected multiple results for os-pkgs"

(***************************************************************************)
(* pkg/pkgmgr/npm.go: npmManager.InstallUpdates                            *)
(*                                                                         *)
(* An llb.State is the sequence of the operations that define it: the      *)
(* image it starts from, then one entry per Run. Building a state runs     *)
(* nothing; the build engine runs the steps when the state is solved.      *)
(***************************************************************************)
LLBImage(ref) == <<[Op |-> "image", Arg |-> ref]>>

\* state.Run(llb.Shlex(cmd), ...).Root()
LLBRun(state, cmd) == Append(state, [Op |-> "run", Arg |-> cmd])

NpmAuditFixCmd ==
    "sh -c \"cd /app && npm audit fix --force && npm cache clean --force || true\""

\* The packages InstallUpdates takes as its targets (lines 94 and 99)
NpmTargets(manifest) ==
    IF manifest = <<>> THEN {}
    ELSE {manifest[1].Updates[i] : i \in 1..Len(manifest[1].Updates)}

\* A plausible slip: only the nil manifest is short-circuited, and an empty
\* update list still appends the npm step.
InstallUpdatesNilOnly(imageState, manifest, ignoreErrors) ==
    IF manifest = <<>>
    THEN [State |-> imageState, ErrPkgs |-> <<>>, Err |-> ""]
    ELSE [State |-> LLBRun(imageState, NpmAuditFixCmd), ErrPkgs |-> <<>>, Err |-> ""]

\* A plausible slip: one step per package of the manifest.
RECURSIVE RunPerPackage(_, _)
RunPerPackage(state, n) ==
    IF n = 0 THEN state ELSE RunPerPackage(LLBRun(state, NpmAuditFixCmd), n - 1)

InstallUpdatesPerPackage(imageState, manifest, ignoreErrors) ==
    IF manifest = <<>> \/ Len(manifest[1].Updates) = 0
    THEN [State |-> imageState, ErrPkgs |-> <<>>, Err |-> ""]
    ELSE [State |-> RunPerPackage(imageState, Len(manifest[1].Updates)),
          ErrPkgs |-> <<>>, Err |-> ""]

\* Lines 89-114. The manifest is <<>> when nil and <<m>> otherwise. The
\* ignoreErrors argument is the blank identifier: it is not read. errPkgs is
\* declared and returned as it is.
InstallUpdates(imageState, manifest, ignoreErrors) ==
    IF manifest = <<>> \/ Len(manifest[1].Updates) = 0
    THEN [State |-> imageState, ErrPkgs |-> <<>>, Err |-> ""]
    ELSE [State |-> LLBRun(imageState, NpmAuditFixCmd), ErrPkgs |-> <<>>, Err |-> ""]

\* The shell's and-or list "a && b && c || true": the exit status of the
\* list given the statuses a, b and c would have; "true" ends it with 0.
AndAndAndOrTrue(a, b, c) ==
    LET left == IF a # 0 THEN a ELSE IF b # 0 THEN b ELSE c
    IN  IF left = 0 THEN left ELSE 0  \* "|| true" runs after a failure

\* The exit status of the step of line 103 in an image where npm cannot
\* update the packages of cannotUpdate: "npm audit fix" fails when it leaves
\* one of the targets unfixed.
NpmStepExit(targets, cannotUpdate) ==
    AndAndAndOrTrue(0, IF targets \cap cannotUpdate # {} THEN 1 ELSE 0, 0)

(***************************************************************************)
(* Specification SpecNpm: InstallUpdates on every manifest within the      *)
(* bounds, then the build engine's run of the returned state.              *)
(***************************************************************************)
NpmPackages == {"lodash", "minimist"}

NpmManifests ==
    {<<>>} \cup
    {<<[Updates |-> u, NodeUpdates |-> n]>> :
        u \in SeqsUpTo(NpmPackages, MaxUpdates), n \in SeqsUpTo(NpmPackages, MaxUpdates)}

NpmInit ==
    /\ NjIdle
    /\ OciIdle
    /\ MfIdle
    /\ SrIdle
    /\ StIdle
    /\ DkIdle
    /\ RsIdle
    /\ MtIdle
    /\ BpIdle
    /\ AsmIdle
    /\ FxIdle
    /\ ParseIdle
    /\ DiscIdle
    /\ npmImageState = LLBImage("node:18-alpine")
    /\ npmManifest \in NpmManifests
    /\ npmIgnoreErrors \in BOOLEAN
    /\ npmCannotUpdate \in SUBSET NpmPackages
    /\ npmOut = [State |-> <<>>, ErrPkgs |-> <<>>, Err |-> ""]
    /\ npmExit = 0
    /\ npmPc = "call"

NpmInstallUpdates ==
    /\ npmPc = "call"
    /\ npmOut' = InstallUpdates(npmImageState, npmManifest, npmIgnoreErrors)
    /\ npmPc' = "returned"
    /\ UNCHANGED <<npmImageState, npmManifest, npmIgnoreErrors, npmCannotUpdate, npmExit>>
    /\ UNCHANGED <<fxVars, parseVars, discVars, asmVars, bpVars, mtVars, rsVars, stVars, dkVars, njVars, ociVars, mfVars, srVars>>

\* The build engine solves the returned state: its steps run now.
NpmSolve ==
    /\ npmPc = "returned"
    /\ npmOut.Err = ""
    /\ npmExit' = IF npmOut.State # npmImageState
                  THEN NpmStepExit(NpmTargets(npmManifest), npmCannotUpdate)
                  ELSE 0
    /\ npmPc' = "solved"
    /\ UNCHANGED <<npmImageState, npmManifest, npmIgnoreErrors, npmCannotUpdate, npmOut>>
    /\ UNCHANGED <<fxVars, parseVars, discVars, asmVars, bpVars, mtVars, rsVars, stVars, dkVars, njVars, ociVars, mfVars, srVars>>

NpmNext == NpmInstallUpdates \/ NpmSolve

SpecNpm == NpmInit /\ [][NpmNext]_vars

\* The targets of the call that npm cannot update
NpmFailed == NpmTargets(npmManifest) \cap npmCannotUpdate

\* C6: with ignoreErrors false a package that cannot be updated fails the
\* call (or, the steps being deferred, the run of the returned state); with
\* ignoreErrors true the call succeeds and lists every such package.
InstallUpdatesErrorSemantics ==
    (npmPc = "solved" /\ NpmFailed # {}) =>
        IF npmIgnoreErrors
        THEN /\ npmOut.Err = ""
             /\ \A p \in NpmFailed : \E i \in 1..Len(npmOut.ErrPkgs) : npmOut.ErrPkgs[i] = p
        ELSE npmOut.Err # "" \/ npmExit # 0

\* C7: a nil manifest, or one with no updates, is a no-op: the returned state
\* is the input state, no package is reported failed, and there is no error.
InstallUpdatesNoOp ==
    (/\ npmPc # "call"
     /\ \/ npmManifest = <<>>
        \/ npmManifest[1].Updates = <<>> /\ npmManifest[1].NodeUpdates = <<>>) =>
        /\ npmOut.State = npmImageState
        /\ npmOut.ErrPkgs = <<>>
        /\ npmOut.Err = ""

\* C7 witness: the call has returned for a non-nil manifest with two empty
\* update lists and ignoreErrors set.
InstallUpdatesNoOpWitness ==
    /\ npmPc = "returned"
    /\ npmManifest = <<[Updates |-> <<>>, NodeUpdates |-> <<>>]>>
    /\ npmIgnoreErrors
    /\ npmOut.State = npmImageState

\* The steps the returned state has on top of the manager's image state
StepsAppended == SubSeq(npmOut.State, Len(npmImageState) + 1, Len(npmOut.State))

ReturnedStateDerived ==
    /\ Len(npmOut.State) >= Len(npmImageState)
    /\ SubSeq(npmOut.State, 1, Len(npmImageState)) = npmImageState
    /\ \A i \in 1..Len(StepsAppended) : StepsAppended[i].Op = "run"

\* The manager's image state is what it was, and the build engine has run
\* nothing when the call returns
NothingRunByTheCall ==
    /\ npmImageState = LLBImage("node:18-alpine")
    /\ npmPc = "returned" => npmExit = 0

\* C28 as stated: every invocation of InstallUpdates appends exactly one
\* step to the returned state, whatever the manifest; the input state is
\* unchanged, the returned state is derived from it and nothing has run.
EveryCallAppendsOneStep ==
    npmPc # "call" =>
        /\ ReturnedStateDerived
        /\ Len(StepsAppended) = 1
        /\ NothingRunByTheCall

\* C28, amended: an invocation with at least one update appends exactly one
\* step, whatever the number of updates, and an invocation with a nil
\* manifest or an empty update list appends none; in both cases the input
\* state is unchanged, the returned state is derived from it and nothing
\* has run when the call returns.
CallWithUpdatesAppendsOneStep ==
    npmPc # "call" =>
        /\ ReturnedStateDerived
        /\ Len(StepsAppended) =
              IF npmManifest = <<>> \/ npmManifest[1].Updates = <<>> THEN 0 ELSE 1
        /\ NothingRunByTheCall

\* C28 witness: the call has returned for a manifest with two updates, and
\* the returned state is the input state and one run step.
OneStepWitness ==
    /\ npmPc = "returned"
    /\ npmManifest # <<>>
    /\ Len(npmManifest[1].Updates) = 2
    /\ Len(npmOut.State) = Len(npmImageState) + 1
    /\ npmOut.State[Len(npmOut.State)] = [Op |-> "run", Arg |-> NpmAuditFixCmd]

(***************************************************************************)
(* Specification SpecParseInstall: Parse on every report within the        *)
(* bounds, then InstallUpdates of the Node manager on the manifest Parse   *)
(* returned                                                                *)
(***************************************************************************)
PnInit ==
    /\ FxIdle
    /\ DiscIdle
    /\ AsmIdle
    /\ BpIdle
    /\ MtIdle
    /\ RsIdle
    /\ StIdle
    /\ DkIdle
    /\ NjIdle
    /\ OciIdle
    /\ MfIdle
    /\ SrIdle
    /\ report \in ReportFiles
    /\ parseOut = ParseFailure("")
    /\ parsePc = "call"
    /\ npmImageState = LLBImage("node:18-alpine")
    /\ npmManifest = <<>>
    /\ npmIgnoreErrors = FALSE
    /\ npmCannotUpdate = {}
    /\ npmOut = [State |-> <<>>, ErrPkgs |-> <<>>, Err |-> ""]
    /\ npmExit = 0
    /\ npmPc = "call"

\* InstallUpdates called with the manifest Parse returned
PnInstallUpdates ==
    /\ parsePc = "done"
    /\ parseOut.Err = ""
    /\ npmPc = "call"
    /\ npmManifest' = parseOut.Manifest
    /\ npmOut' = InstallUpdates(npmImageState, parseOut.Manifest, npmIgnoreErrors)
    /\ npmPc' = "returned"
    /\ UNCHANGED <<npmImageState, npmIgnoreErrors, npmCannotUpdate, npmExit>>
    /\ UNCHANGED <<fxVars, parseVars, discVars, asmVars, bpVars, mtVars, rsVars, stVars, dkVars,
                   njVars, ociVars, mfVars, srVars>>

PnNext == ParseCall \/ PnInstallUpdates

SpecParseInstall == PnInit /\ [][PnNext]_vars

\* C30: when the manifest Parse returned has at least one Node update, the
\* state InstallUpdates returns has an update step on top of the image
\* state, whether or not the manifest has OS updates.
NodeUpdatesArePatched ==
    (/\ npmPc = "returned"
     /\ npmManifest # <<>>
     /\ npmManifest[1].NodeUpdates # <<>>) =>
        /\ npmOut.Err = ""
        /\ Len(npmOut.State) = Len(npmImageState) + 1
        /\ npmOut.State[Len(npmOut.State)].Op = "run"

(***************************************************************************)
(* pkg/buildkit: platform discovery                                        *)
(*                                                                         *)
(* A string the code builds with "+" is the sequence of the pieces it is   *)
(* built from; the empty string is <<>>.  An ispec.Platform is a record    *)
(* of such strings held as one piece each ("" for an unset field).         *)
(***************************************************************************)
linux == "linux"
arm64 == "arm64"

Platform(os, arch, variant, osVersion) ==
    [OS |-> os, Architecture |-> arch, Variant |-> variant, OSVersion |-> osVersion]

PatchPlatform(pl, reportFile, shouldPreserve) ==
    [Platform |-> pl, ReportFile |-> reportFile, ShouldPreserve |-> shouldPreserve]

\* Lines 362-373
PlatformKey(pl) ==
    <<pl.OS, "/", pl.Architecture>>
    \o (IF pl.Variant # "" THEN <<"/", pl.Variant>> ELSE <<>>)
    \o (IF pl.OSVersion # "" THEN <<"@", pl.OSVersion>> ELSE <<>>)

\* A plausible slip: the variant is kept as it was found.
NormalizeNothing(pl) == pl

\* Lines 319-323, 351-353 and 167-171: the v8 variant of arm64 is dropped
NormalizeArm64(pl) ==
    IF pl.Architecture = arm64 /\ pl.Variant = "v8"
    THEN [pl EXCEPT !.Variant = ""]
    ELSE pl

\* Lines 178-185
SupportedOsTypes ==
    {"alpine", "debian", "ubuntu", "cbl-mariner", "azurelinux", "centos", "oracle",
     "redhat", "rocky", "amazon", "alma"}

isSupportedOsType(osType) == osType \in SupportedOsTypes

\* Lines 142-173: the loop over the directory listing. An entry is a
\* subdirectory, a file TryParseScanReport refuses, or a file with the
\* metadata of its parsed report.
RECURSIVE ReportPlatformsFrom(_, _)
ReportPlatformsFrom(reportDir, entries) ==
    IF entries = <<>>
    THEN [Platforms |-> <<>>, Err |-> ""]
    ELSE LET file == Head(entries)
             filePath == reportDir \o <<"/", file.Name>>
             rest == ReportPlatformsFrom(reportDir, Tail(entries))
         IN  IF file.IsDir THEN rest
             ELSE IF file.ParseErr THEN [Platforms |-> <<>>, Err |-> "error parsing report"]
             ELSE IF ~isSupportedOsType(file.OSType) THEN rest
             ELSE IF rest.Err # "" THEN rest
             ELSE [Platforms |->
                      <<PatchPlatform(
                            NormalizeArm64(Platform(linux, file.Arch, file.Variant, "")),
                            filePath, FALSE)>> \o rest.Platforms,
                   Err |-> ""]

\* Lines 134-176
DiscoverPlatformsFromReport(reportDir, listing) ==
    IF listing.Err # ""
    THEN [Platforms |-> <<>>, Err |-> listing.Err]
    ELSE ReportPlatformsFrom(reportDir, listing.Entries)

\* Lines 299-325: the loop over the index's manifests. A manifest's Platform
\* pointer is <<>> when nil and <<pl>> otherwise. The skip branch formats
\* m.Platform.OS for its debug message, which a nil Platform cannot give.
RECURSIVE IndexPlatformsFrom(_)
IndexPlatformsFrom(manifests) ==
    IF manifests = <<>>
    THEN [Platforms |-> <<>>, Err |-> ""]
    ELSE LET m == Head(manifests)
             rest == IndexPlatformsFrom(Tail(manifests))
         IN  IF m = <<>> THEN [Platforms |-> <<>>, Err |-> "panic: nil pointer dereference"]
             ELSE IF m[1].OS = "unknown" \/ m[1].Architecture = "unknown" THEN rest
             ELSE IF rest.Err # "" THEN rest
             ELSE [Platforms |->
                      <<PatchPlatform(NormalizeArm64(m[1]), <<>>, FALSE)>> \o rest.Platforms,
                   Err |-> ""]

\* Lines 276-286: the local daemon first, the remote registry when it fails.
\* A lookup's answer is <<>> when it fails and <<desc>> otherwise.
FetchDescriptor(local, remote) ==
    IF local # <<>> THEN local ELSE remote

\* Lines 267-359. Platforms is the returned slice, IsNil whether it is nil.
DiscoverPlatformsFromReference(refOK, local, remote) ==
    LET none(err) == [Platforms |-> <<>>, IsNil |-> TRUE, Err |-> err]
        got == FetchDescriptor(local, remote)
    IN  IF ~refOK THEN none("error parsing reference")
        ELSE IF got = <<>> THEN none("error fetching descriptor")
        ELSE LET desc == got[1]
             IN  IF desc.IsIndex
                 THEN IF desc.Corrupt THEN none("error getting image index")
                      ELSE LET r == IndexPlatformsFrom(desc.Manifests)
                           IN  IF r.Err # "" THEN none(r.Err)
                               ELSE [Platforms |-> r.Platforms,
                                     IsNil |-> r.Platforms = <<>>,
                                     Err |-> ""]
                 ELSE IF desc.Corrupt THEN none("error getting image")
                 ELSE IF desc.Config.Architecture # "" /\ desc.Config.OS # ""
                 THEN [Platforms |->
                          <<PatchPlatform(
                                NormalizeArm64(Platform(desc.Config.OS,
                                                        desc.Config.Architecture,
                                                        desc.Config.Variant, "")),
                                <<>>, FALSE)>>,
                       IsNil |-> FALSE,
                       Err |-> ""]
                 ELSE none("")

\* A plausible slip: the map is built from the first report only.
ReportSetFirstOnly(p2) ==
    IF p2 = <<>>
    THEN <<>>
    ELSE <<[Key |-> PlatformKey(p2[1].Platform), File |-> p2[1].ReportFile]>>

\* Lines 395-398: the report map, from platform key to report file; a later
\* report of the same key replaces an earlier one.
RECURSIVE ReportSet(_)
ReportSet(p2) ==
    IF p2 = <<>>
    THEN <<>>
    ELSE LET pl == p2[Len(p2)]
             before == ReportSet(SubSeq(p2, 1, Len(p2) - 1))
             key == PlatformKey(pl.Platform)
         IN  IF \E k \in 1..Len(before) : before[k].Key = key
             THEN [k \in 1..Len(before) |->
                      IF before[k].Key = key
                      THEN [Key |-> key, File |-> pl.ReportFile]
                      ELSE before[k]]
             ELSE Append(before, [Key |-> key, File |-> pl.ReportFile])

\* reportSet[key], with ok as in "rp, ok := reportSet[key]"
Lookup(reportSet, key) ==
    IF \E k \in 1..Len(reportSet) : reportSet[k].Key = key
    THEN [ok |-> TRUE,
          rp |-> reportSet[CHOOSE k \in 1..Len(reportSet) : reportSet[k].Key = key].File]
    ELSE [ok |-> FALSE, rp |-> <<>>]

\* A plausible slip: only the platforms that have a report are kept.
RECURSIVE MatchPlatformsDropUnmatched(_, _)
MatchPlatformsDropUnmatched(p, reportSet) ==
    IF p = <<>>
    THEN <<>>
    ELSE LET pl == Head(p)
             found == Lookup(reportSet, PlatformKey(pl.Platform))
         IN  (IF found.ok
              THEN <<PatchPlatform(pl.Platform, found.rp, FALSE)>>
              ELSE <<>>) \o MatchPlatformsDropUnmatched(Tail(p), reportSet)

\* Lines 400-413: every platform of the image, with its report when the map
\* has its key, and to be preserved when not
RECURSIVE MatchPlatforms(_, _)
MatchPlatforms(p, reportSet) ==
    IF p = <<>>
    THEN <<>>
    ELSE LET pl == Head(p)
             found == Lookup(reportSet, PlatformKey(pl.Platform))
         IN  (IF found.ok
              THEN <<PatchPlatform(pl.Platform, found.rp, FALSE)>>
              ELSE <<PatchPlatform(pl.Platform, <<>>, TRUE)>>)
             \o MatchPlatforms(Tail(p), reportSet)

\* Lines 375-419
DiscoverPlatforms(refOK, local, remote, reportDir, listing) ==
    LET fail(err) == [Platforms |-> <<>>, Err |-> err]
        p == DiscoverPlatformsFromReference(refOK, local, remote)
    IN  IF p.Err # "" THEN fail(p.Err)
        ELSE IF p.IsNil THEN fail("image is not multi platform")
        ELSE IF reportDir # <<>>
        THEN LET p2 == DiscoverPlatformsFromReport(reportDir, listing)
             IN  IF p2.Err # "" THEN fail(p2.Err)
                 ELSE [Platforms |-> MatchPlatforms(p.Platforms, ReportSet(p2.Platforms)),
                       Err |-> ""]
        ELSE [Platforms |-> p.Platforms, Err |-> ""]

(***************************************************************************)
(* Specification SpecDiscover: DiscoverPlatforms on every image and report *)
(* directory within the bounds.                                            *)
(***************************************************************************)
\* The Platform pointers of an index's manifests
ManifestPlatforms ==
    {<<Platform(linux, "amd64", "", "")>>,
     <<Platform(linux, arm64, "v8", "")>>,
     <<Platform(linux, arm64, "", "")>>,
     <<Platform("windows", "amd64", "", "10.0.20348")>>,
     <<Platform("unknown", "unknown", "", "")>>,
     <<Platform("", "", "", "")>>,
     <<>>}

IndexDescriptors ==
    {[IsIndex |-> TRUE, Corrupt |-> FALSE, Manifests |-> ms, Config |-> Platform("", "", "", "")] :
        ms \in SeqsUpTo(ManifestPlatforms, MaxManifests)}

ImageDescriptors ==
    {[IsIndex |-> FALSE, Corrupt |-> FALSE, Manifests |-> <<>>, Config |-> c] :
        c \in {Platform(linux, "amd64", "", ""), Platform(linux, arm64, "v8", ""),
               Platform(linux, arm64, "", ""),
               Platform("", "", "", "")}}

CorruptDescriptors ==
    {[IsIndex |-> b, Corrupt |-> TRUE, Manifests |-> <<>>, Config |-> Platform("", "", "", "")] :
        b \in BOOLEAN}

\* What the remote registry holds when the local daemon has another copy
StaleRemote ==
    [IsIndex |-> FALSE, Corrupt |-> FALSE, Manifests |-> <<>>,
     Config |-> Platform(linux, "amd64", "", "")]

\* The local daemon answers only with a manifest list that has manifests
\* (tryGetManifestFromLocal, lines 188-260).
Lookups ==
    {[Local |-> <<d>>, Remote |-> r] :
        d \in {x \in IndexDescriptors : x.Manifests # <<>>}, r \in {<<>>, <<StaleRemote>>}}
    \cup {[Local |-> <<>>, Remote |-> <<d>>] :
        d \in IndexDescriptors \cup ImageDescriptors \cup CorruptDescriptors}
    \cup {[Local |-> <<>>, Remote |-> <<>>]}

ReportEntry(name, isDir, parseErr, osType, arch, variant) ==
    [Name |-> name, IsDir |-> isDir, ParseErr |-> parseErr,
     OSType |-> osType, Arch |-> arch, Variant |-> variant]

\* The entries a report directory may hold, in the order of their names
\* (os.ReadDir returns a listing sorted by file name)
ReportDirFiles ==
    <<ReportEntry("amd64-b.json", FALSE, FALSE, "ubuntu", "amd64", ""),
      ReportEntry("amd64.json", FALSE, FALSE, "debian", "amd64", ""),
      ReportEntry("arm64-v8.json", FALSE, FALSE, "alpine", arm64, "v8"),
      ReportEntry("arm64.json", FALSE, FALSE, "alpine", arm64, ""),
      ReportEntry("broken.json", FALSE, TRUE, "", "", ""),
      ReportEntry("old", TRUE, FALSE, "", "", ""),
      ReportEntry("windows.json", FALSE, FALSE, "windows", "amd64", "")>>

\* The listing that holds the entries of ReportDirFiles chosen by keep
RECURSIVE ListingOf(_, _)
ListingOf(keep, i) ==
    IF i > Len(ReportDirFiles) THEN <<>>
    ELSE (IF i \in keep THEN <<ReportDirFiles[i]>> ELSE <<>>) \o ListingOf(keep, i + 1)

Listings ==
    {[Err |-> "", Entries |-> ListingOf(keep, 1)] : keep \in SUBSET (1..Len(ReportDirFiles))}
    \cup {[Err |-> "open: no such file or directory", Entries |-> <<>>]}

DiscInit ==
    /\ NjIdle
    /\ OciIdle
    /\ MfIdle
    /\ SrIdle
    /\ StIdle
    /\ DkIdle
    /\ RsIdle
    /\ MtIdle
    /\ BpIdle
    /\ AsmIdle
    /\ FxIdle
    /\ ParseIdle
    /\ NpmIdle
    /\ \/ /\ discRefOK = TRUE
          /\ \E l \in Lookups : discLocal = l.Local /\ discRemote = l.Remote
       \/ /\ discRefOK = FALSE
          /\ discLocal = <<>>
          /\ discRemote = <<>>
    /\ \/ /\ discReportDir = <<"reports">>
          /\ discListing \in Listings
       \/ /\ discReportDir = <<>>
          /\ discListing = [Err |-> "", Entries |-> <<>>]
    /\ discOut = [Platforms |-> <<>>, Err |-> ""]
    /\ discPc = "call"

DiscDiscoverPlatforms ==
    /\ discPc = "call"
    /\ discOut' = DiscoverPlatforms(discRefOK, discLocal, discRemote, discReportDir, discListing)
    /\ discPc' = "done"
    /\ UNCHANGED <<discRefOK, discLocal, discRemote, discReportDir, discListing>>
    /\ UNCHANGED <<fxVars, parseVars, npmVars, asmVars, bpVars, mtVars, rsVars, stVars, dkVars, njVars, ociVars, mfVars, srVars>>

DiscNext == DiscDiscoverPlatforms

SpecDiscover == DiscInit /\ [][DiscNext]_vars

\* The platforms of the image, as discovery from the reference gives them
ImagePlatforms == DiscoverPlatformsFromReference(discRefOK, discLocal, discRemote).Platforms

\* The keys of the report map: one per report file of the listing that is
\* of a supported OS type
ReportKeys ==
    {PlatformKey(NormalizeArm64(Platform(linux, e.Arch, e.Variant, ""))) :
        e \in {x \in {discListing.Entries[i] : i \in 1..Len(discListing.Entries)} :
                  ~x.IsDir /\ x.OSType \in SupportedOsTypes}}

\* C1: with a report directory, a successful DiscoverPlatforms returns one
\* entry per image platform, in order and no others; an entry whose key is in
\* the report map has a report file and is not preserved, any other entry has
\* no report file and is preserved.
EveryImagePlatformReturned ==
    (discPc = "done" /\ discReportDir # <<>> /\ discOut.Err = "") =>
        /\ Len(discOut.Platforms) = Len(ImagePlatforms)
        /\ \A i \in 1..Len(discOut.Platforms) :
               LET e == discOut.Platforms[i]
               IN  /\ e.Platform = ImagePlatforms[i].Platform
                   /\ IF PlatformKey(e.Platform) \in ReportKeys
                      THEN ~e.ShouldPreserve /\ e.ReportFile # <<>>
                      ELSE e.ShouldPreserve /\ e.ReportFile = <<>>

\* C1 witness: a two-platform image of which one platform has a report and
\* the other has none.
EveryImagePlatformReturnedWitness ==
    /\ discPc = "done"
    /\ discReportDir # <<>>
    /\ discOut.Err = ""
    /\ Len(discOut.Platforms) = 2
    /\ ~discOut.Platforms[1].ShouldPreserve
    /\ discOut.Platforms[1].ReportFile # <<>>
    /\ discOut.Platforms[2].ShouldPreserve
    /\ discOut.Platforms[2].ReportFile = <<>>

\* The platforms of the image as its manifest or its configuration declares
\* them, before discovery touches them
DeclaredPlatforms ==
    LET got == FetchDescriptor(discLocal, discRemote)
    IN  IF got = <<>> THEN <<>>
        ELSE IF got[1].IsIndex
        THEN [i \in 1..Len(got[1].Manifests) |->
                 IF got[1].Manifests[i] = <<>>
                 THEN Platform("", "", "", "")
                 ELSE got[1].Manifests[i][1]]
        ELSE <<got[1].Config>>

IsArm64(pl) == pl.OS = linux /\ pl.Architecture = arm64 /\ pl.Variant \in {"", "v8"}
IsArm64Entry(e) == IsArm64(e.Platform)

\* The report files of the listing that declare arm64, with or without v8
Arm64Reports ==
    {discReportDir \o <<"/", e.Name>> :
        e \in {x \in {discListing.Entries[i] : i \in 1..Len(discListing.Entries)} :
                  ~x.IsDir /\ x.OSType \in SupportedOsTypes
                  /\ x.Arch = arm64 /\ x.Variant \in {"", "v8"}}}

\* C13: every arm64 platform of the image, declared with variant v8 or
\* without variant by an index or by an image configuration, is paired with
\* an arm64 report of the directory, declared with v8 or without, when there
\* is one, and is preserved when there is none.
Arm64VariantsMatch ==
    (discPc = "done" /\ discReportDir # <<>> /\ discOut.Err = "") =>
        LET declared == SelectSeq(DeclaredPlatforms, IsArm64)
            out == SelectSeq(discOut.Platforms, IsArm64Entry)
        IN  /\ Len(out) = Len(declared)
            /\ \A i \in 1..Len(out) :
                   IF Arm64Reports # {}
                   THEN ~out[i].ShouldPreserve /\ out[i].ReportFile \in Arm64Reports
                   ELSE out[i].ShouldPreserve /\ out[i].ReportFile = <<>>

\* C13 witness: an index that declares arm64/v8 beside arm64 without variant,
\* and a directory whose only arm64 report declares v8; both are paired.
Arm64VariantsMatchWitness ==
    /\ discPc = "done"
    /\ discOut.Err = ""
    /\ DeclaredPlatforms = <<Platform(linux, arm64, "v8", ""), Platform(linux, arm64, "", "")>>
    /\ Arm64Reports = {<<"reports", "/", "arm64-v8.json">>}
    /\ Len(discOut.Platforms) = 2
    /\ \A i \in 1..2 : discOut.Platforms[i].ReportFile = <<"reports", "/", "arm64-v8.json">>

\* The reference resolves to a single-platform image whose manifest and
\* configuration can be read
ResolvesToSingleImage ==
    /\ discRefOK
    /\ FetchDescriptor(discLocal, discRemote) # <<>>
    /\ ~FetchDescriptor(discLocal, discRemote)[1].IsIndex
    /\ ~FetchDescriptor(discLocal, discRemote)[1].Corrupt

\* C14: when the reference resolves to a single-platform image,
\* DiscoverPlatforms fails with the not-multi-platform error and returns no
\* platform list.
SingleImageRefused ==
    (discPc = "done" /\ ResolvesToSingleImage) =>
        /\ discOut.Err = "image is not multi platform"
        /\ discOut.Platforms = <<>>

\* The reference resolves to a multi-platform index that can be read
ResolvesToIndex ==
    /\ discRefOK
    /\ FetchDescriptor(discLocal, discRemote) # <<>>
    /\ FetchDescriptor(discLocal, discRemote)[1].IsIndex
    /\ ~FetchDescriptor(discLocal, discRemote)[1].Corrupt

KnownPlatform(pl) ==
    pl.OS \notin {"", "unknown"} /\ pl.Architecture \notin {"", "unknown"}

\* C15: on an index, DiscoverPlatformsFromReference does not fail and emits,
\* in index order, one candidate per sub-manifest whose platform is present
\* with a known, non-empty OS and architecture, and no other.
KnownManifestsEmitted ==
    (discPc = "done" /\ ResolvesToIndex) =>
        LET r == DiscoverPlatformsFromReference(discRefOK, discLocal, discRemote)
            known == SelectSeq(DeclaredPlatforms, KnownPlatform)
        IN  /\ r.Err = ""
            /\ Len(r.Platforms) = Len(known)
            /\ \A i \in 1..Len(known) : r.Platforms[i].Platform = NormalizeArm64(known[i])

(***************************************************************************)
(* Specification SpecMatch: the matching of DiscoverPlatforms (lines       *)
(* 395-413) on every list of image platforms and of report platforms, on a *)
(* reordering of both lists, and on its own result.                        *)
(***************************************************************************)
\* Platforms as DiscoverPlatformsFromReference returns them
MatchImagePlatforms ==
    {PatchPlatform(Platform(linux, "amd64", "", ""), <<>>, FALSE),
     PatchPlatform(Platform(linux, arm64, "", ""), <<>>, FALSE),
     PatchPlatform(Platform(linux, "arm", "v7", ""), <<>>, FALSE),
     PatchPlatform(Platform("windows", "amd64", "", "10.0.20348"), <<>>, FALSE)}

\* Platforms as DiscoverPlatformsFromReport returns them; two reports may
\* declare the same platform
MatchReportPlatforms ==
    {PatchPlatform(Platform(linux, "amd64", "", ""), <<"reports", "/", "amd64.json">>, FALSE),
     PatchPlatform(Platform(linux, "amd64", "", ""), <<"reports", "/", "amd64-b.json">>, FALSE),
     PatchPlatform(Platform(linux, arm64, "", ""), <<"reports", "/", "arm64.json">>, FALSE),
     PatchPlatform(Platform(linux, "s390x", "", ""), <<"reports", "/", "s390x.json">>, FALSE)}

\* The reorderings of a list
Reorderings(n) == {f \in [1..n -> 1..n] : \A i, j \in 1..n : f[i] = f[j] => i = j}
Permute(seq, f) == [i \in 1..Len(seq) |-> seq[f[i]]]

MtInit ==
    /\ NjIdle
    /\ OciIdle
    /\ MfIdle
    /\ SrIdle
    /\ StIdle
    /\ DkIdle
    /\ RsIdle
    /\ FxIdle
    /\ ParseIdle
    /\ NpmIdle
    /\ DiscIdle
    /\ AsmIdle
    /\ BpIdle
    /\ mtImage \in SeqsUpTo(MatchImagePlatforms, MaxPlatforms)
    /\ mtReports \in SeqsUpTo(MatchReportPlatforms, MaxReports)
    /\ mtOut = <<>>
    /\ mtPermOut = <<>>
    /\ mtAgainOut = <<>>
    /\ mtPc = "match"

MtMatch ==
    /\ mtPc = "match"
    /\ mtOut' = MatchPlatforms(mtImage, ReportSet(mtReports))
    /\ mtPc' = "reordered"
    /\ UNCHANGED <<mtImage, mtReports, mtPermOut, mtAgainOut>>
    /\ UNCHANGED <<fxVars, parseVars, npmVars, discVars, asmVars, bpVars, rsVars, stVars, dkVars, njVars, ociVars, mfVars, srVars>>

MtMatchReordered ==
    /\ mtPc = "reordered"
    /\ \E f \in Reorderings(Len(mtImage)), g \in Reorderings(Len(mtReports)) :
           mtPermOut' = MatchPlatforms(Permute(mtImage, f), ReportSet(Permute(mtReports, g)))
    /\ mtPc' = "again"
    /\ UNCHANGED <<mtImage, mtReports, mtOut, mtAgainOut>>
    /\ UNCHANGED <<fxVars, parseVars, npmVars, discVars, asmVars, bpVars, rsVars, stVars, dkVars, njVars, ociVars, mfVars, srVars>>

MtMatchAgain ==
    /\ mtPc = "again"
    /\ mtAgainOut' = MatchPlatforms(mtOut, ReportSet(mtReports))
    /\ mtPc' = "done"
    /\ UNCHANGED <<mtImage, mtReports, mtOut, mtPermOut>>
    /\ UNCHANGED <<fxVars, parseVars, npmVars, discVars, asmVars, bpVars, rsVars, stVars, dkVars, njVars, ociVars, mfVars, srVars>>

MtNext == MtMatch \/ MtMatchReordered \/ MtMatchAgain

SpecMatch == MtInit /\ [][MtNext]_vars

ShouldPreserveOf(platforms) == [i \in 1..Len(platforms) |-> platforms[i].ShouldPreserve]

\* C16: a platform gets the same ShouldPreserve whatever the order of the
\* image platforms and of the reports, and matching the returned platforms
\* again against the same reports changes no ShouldPreserve.
MatchingOrderIndependent ==
    mtPc = "done" =>
        /\ Len(mtPermOut) = Len(mtOut)
        /\ \A i \in 1..Len(mtOut), j \in 1..Len(mtPermOut) :
               mtOut[i].Platform = mtPermOut[j].Platform =>
                   mtOut[i].ShouldPreserve = mtPermOut[j].ShouldPreserve
        /\ ShouldPreserveOf(mtAgainOut) = ShouldPreserveOf(mtOut)

\* C16 witness: two image platforms of which one has a report, two reports,
\* and a reordering that turns the image platforms around
MatchingOrderIndependentWitness ==
    /\ mtPc = "done"
    /\ Len(mtOut) = 2
    /\ Len(mtReports) = 2
    /\ ShouldPreserveOf(mtOut) = <<FALSE, TRUE>>
    /\ ShouldPreserveOf(mtPermOut) = <<TRUE, FALSE>>
    /\ ShouldPreserveOf(mtAgainOut) = <<FALSE, TRUE>>

(***************************************************************************)
(* pkg/utils GetMediaType and pkg/buildkit DiscoverPlatformsFromReference: *)
(* the lookups of the local daemon and of the remote registry, one by one. *)
(* A lookup's answer is <<>> when it fails and <<x>> otherwise, x being a   *)
(* media type for GetMediaType and a descriptor for the discovery.         *)
(***************************************************************************)
GetMediaTypeFn == "GetMediaType"
DiscoverFn == "DiscoverPlatformsFromReference"

\* A plausible slip: an empty media type from the local daemon is taken for
\* an answer.
LocalAnswerGoodAnyType(fn, local) == local # <<>>

\* part_000 line 24 (err == nil && mt != "") and part_002 line 277
\* (err == nil): whether the local answer is used
LocalAnswerGood(fn, local) ==
    /\ local # <<>>
    /\ fn = GetMediaTypeFn => local[1] # ""

\* part_002 lines 288-358 on the descriptor obtained
PlatformsOfDescriptor(desc) == DiscoverPlatformsFromReference(TRUE, <<desc>>, <<>>)

RsReturn(mediaType, platforms, err) ==
    /\ rsOut' = [MediaType |-> mediaType, Platforms |-> platforms, Err |-> err]
    /\ rsPc' = "returned"

(***************************************************************************)
(* Specification SpecResolve                                               *)
(***************************************************************************)
MediaTypes ==
    {"application/vnd.docker.distribution.manifest.v2+json",
     "application/vnd.oci.image.index.v1+json"}

ResolveManifestPlatforms ==
    {<<Platform(linux, "amd64", "", "")>>,
     <<Platform(linux, arm64, "v8", "")>>,
     <<Platform("unknown", "unknown", "", "")>>}

ResolveIndexDescriptors ==
    {[IsIndex |-> TRUE, Corrupt |-> FALSE, Manifests |-> ms, Config |-> Platform("", "", "", "")] :
        ms \in SeqsUpTo(ResolveManifestPlatforms, MaxManifests) \ {<<>>}}

RsInit ==
    /\ NjIdle
    /\ OciIdle
    /\ MfIdle
    /\ SrIdle
    /\ StIdle
    /\ DkIdle
    /\ FxIdle
    /\ ParseIdle
    /\ NpmIdle
    /\ DiscIdle
    /\ AsmIdle
    /\ BpIdle
    /\ MtIdle
    /\ rsRefOK \in BOOLEAN
    /\ \/ /\ rsFn = GetMediaTypeFn
          \* the daemon has no answer for a reference that does not parse
          /\ rsLocal \in IF rsRefOK THEN {<<>>, <<"">>} \cup {<<t>> : t \in MediaTypes}
                         ELSE {<<>>}
          /\ rsRemote \in {<<>>} \cup {<<t>> : t \in MediaTypes}
          /\ rsPc = "local"
       \/ /\ rsFn = DiscoverFn
          \* the daemon answers only with a manifest list that has manifests,
          \* and has none for a reference that does not parse
          /\ rsLocal \in IF rsRefOK THEN {<<>>} \cup {<<d>> : d \in ResolveIndexDescriptors}
                         ELSE {<<>>}
          /\ rsRemote \in {<<>>} \cup {<<d>> : d \in ResolveIndexDescriptors \cup ImageDescriptors}
          /\ rsPc = "parse"
    /\ rsDesc = <<>>
    /\ rsTrace = <<>>
    /\ rsOut = [MediaType |-> "", Platforms |-> <<>>, Err |-> ""]

\* part_000 lines 23-26
GmLocal ==
    /\ rsFn = GetMediaTypeFn /\ rsPc = "local"
    /\ rsTrace' = Append(rsTrace, "local")
    /\ IF LocalAnswerGood(rsFn, rsLocal)
       THEN RsReturn(rsLocal[1], <<>>, "")
       ELSE rsPc' = "parse" /\ UNCHANGED rsOut
    /\ UNCHANGED <<rsFn, rsRefOK, rsLocal, rsRemote, rsDesc>>
    /\ UNCHANGED <<fxVars, parseVars, npmVars, discVars, asmVars, bpVars, mtVars, stVars, dkVars, njVars, ociVars, mfVars, srVars>>

\* part_000 lines 27-30
GmParse ==
    /\ rsFn = GetMediaTypeFn /\ rsPc = "parse"
    /\ IF rsRefOK
       THEN rsPc' = "remote" /\ UNCHANGED rsOut
       ELSE RsReturn("", <<>>, "could not parse reference")
    /\ UNCHANGED <<rsFn, rsRefOK, rsLocal, rsRemote, rsDesc, rsTrace>>
    /\ UNCHANGED <<fxVars, parseVars, npmVars, discVars, asmVars, bpVars, mtVars, stVars, dkVars, njVars, ociVars, mfVars, srVars>>

\* part_000 lines 31-35
GmRemote ==
    /\ rsFn = GetMediaTypeFn /\ rsPc = "remote"
    /\ rsTrace' = Append(rsTrace, "remote")
    /\ IF rsRemote = <<>>
       THEN RsReturn("", <<>>, "remote lookup failed")
       ELSE RsReturn(rsRemote[1], <<>>, "")
    /\ UNCHANGED <<rsFn, rsRefOK, rsLocal, rsRemote, rsDesc>>
    /\ UNCHANGED <<fxVars, parseVars, npmVars, discVars, asmVars, bpVars, mtVars, stVars, dkVars, njVars, ociVars, mfVars, srVars>>

\* part_002 lines 270-273
DrParse ==
    /\ rsFn = DiscoverFn /\ rsPc = "parse"
    /\ IF rsRefOK
       THEN rsPc' = "local" /\ UNCHANGED rsOut
       ELSE RsReturn("", <<>>, "error parsing reference")
    /\ UNCHANGED <<rsFn, rsRefOK, rsLocal, rsRemote, rsDesc, rsTrace>>
    /\ UNCHANGED <<fxVars, parseVars, npmVars, discVars, asmVars, bpVars, mtVars, stVars, dkVars, njVars, ociVars, mfVars, srVars>>

\* part_002 lines 276-277 and 284-286
DrLocal ==
    /\ rsFn = DiscoverFn /\ rsPc = "local"
    /\ rsTrace' = Append(rsTrace, "local")
    /\ IF LocalAnswerGood(rsFn, rsLocal)
       THEN rsDesc' = rsLocal /\ rsPc' = "platforms"
       ELSE rsPc' = "remote" /\ UNCHANGED rsDesc
    /\ UNCHANGED <<rsFn, rsRefOK, rsLocal, rsRemote, rsOut>>
    /\ UNCHANGED <<fxVars, parseVars, npmVars, discVars, asmVars, bpVars, mtVars, stVars, dkVars, njVars, ociVars, mfVars, srVars>>

\* part_002 lines 278-283
DrRemote ==
    /\ rsFn = DiscoverFn /\ rsPc = "remote"
    /\ rsTrace' = Append(rsTrace, "remote")
    /\ IF rsRemote = <<>>
       THEN /\ RsReturn("", <<>>, "error fetching descriptor")
            /\ UNCHANGED rsDesc
       ELSE /\ rsDesc' = rsRemote
            /\ rsPc' = "platforms"
            /\ UNCHANGED rsOut
    /\ UNCHANGED <<rsFn, rsRefOK, rsLocal, rsRemote>>
    /\ UNCHANGED <<fxVars, parseVars, npmVars, discVars, asmVars, bpVars, mtVars, stVars, dkVars, njVars, ociVars, mfVars, srVars>>

\* part_002 lines 288-358
DrPlatforms ==
    /\ rsFn = DiscoverFn /\ rsPc = "platforms"
    /\ LET r == PlatformsOfDescriptor(rsDesc[1])
       IN  RsReturn("", r.Platforms, r.Err)
    /\ UNCHANGED <<rsFn, rsRefOK, rsLocal, rsRemote, rsDesc, rsTrace>>
    /\ UNCHANGED <<fxVars, parseVars, npmVars, discVars, asmVars, bpVars, mtVars, stVars, dkVars, njVars, ociVars, mfVars, srVars>>

RsNext == GmLocal \/ GmParse \/ GmRemote \/ DrParse \/ DrLocal \/ DrRemote \/ DrPlatforms

SpecResolve == RsInit /\ [][RsNext]_vars

\* The local lookup failed, or gave GetMediaType an empty media type
LocalFailed == rsLocal = <<>> \/ (rsFn = GetMediaTypeFn /\ rsLocal = <<"">>)

\* The platforms a descriptor declares with their arm64 variant normalised,
\* those named "unknown" left out
RECURSIVE NormalizedKnown(_)
NormalizedKnown(manifests) ==
    IF manifests = <<>> THEN <<>>
    ELSE (IF Head(manifests)[1].OS = "unknown" THEN <<>>
          ELSE <<NormalizeArm64(Head(manifests)[1])>>) \o NormalizedKnown(Tail(manifests))

ExpectedPlatforms(desc) ==
    IF desc.IsIndex THEN NormalizedKnown(desc.Manifests)
    ELSE IF desc.Config.OS # "" THEN <<NormalizeArm64(desc.Config)>> ELSE <<>>

getPlatformSuffix(pl) ==
    <<"-", pl.Architecture>> \o (IF pl.Variant # "" THEN <<"-", pl.Variant>> ELSE <<>>)

\* The map platformImages is a sequence of (Key, Image) pairs with distinct
\* keys; MapHas and MapGet read it and MapPut is "platformImages[key] = image".
MapHas(m, key) == \E k \in 1..Len(m) : m[k].Key = key

MapGet(m, key) == m[CHOOSE k \in 1..Len(m) : m[k].Key = key].Image

MapPut(m, key, image) ==
    IF MapHas(m, key)
    THEN [k \in 1..Len(m) |-> IF m[k].Key = key THEN [Key |-> key, Image |-> image] ELSE m[k]]
    ELSE Append(m, [Key |-> key, Image |-> image])

\* Lines 744-763: the inner loop for one result, from platform j on
RECURSIVE AssignResult(_, _, _, _)
AssignResult(m, result, platforms, j) ==
    IF j > Len(platforms)
    THEN m
    ELSE LET platform == platforms[j]
             platformKey == PlatformKey(platform.Platform)
         IN  IF result.PatchedRef # result.OriginalRef
             THEN IF HasSuffix(result.PatchedRef, getPlatformSuffix(platform.Platform))
                  THEN MapPut(m, platformKey, result.PatchedRef)
                  ELSE AssignResult(m, result, platforms, j + 1)
             ELSE IF ~MapHas(m, platformKey)
                  THEN AssignResult(MapPut(m, platformKey, result.OriginalRef),
                                    result, platforms, j + 1)
                  ELSE AssignResult(m, result, platforms, j + 1)

\* Lines 739-764: the outer loop, from result i on
RECURSIVE BuildPlatformImages(_, _, _, _)
BuildPlatformImages(m, results, platforms, i) ==
    IF i > Len(results)
    THEN m
    ELSE BuildPlatformImages(AssignResult(m, results[i], platforms, 1),
                             results, platforms, i + 1)

\* strings.TrimPrefix(imageRef, "docker.io/")
TrimDockerIO(imageRef) ==
    IF Len(imageRef) > 0 /\ imageRef[1] = "docker.io/" THEN Tail(imageRef) ELSE imageRef

\* Lines 807-832: one state per platform whose key the map has, in the order
\* of the platforms; the platform spec leaves the OS version out.
RECURSIVE BuildPlatformStates(_, _)
BuildPlatformStates(m, platforms) ==
    IF platforms = <<>>
    THEN <<>>
    ELSE LET platform == Head(platforms)
             platformKey == PlatformKey(platform.Platform)
         IN  (IF MapHas(m, platformKey)
              THEN <<[Image |-> TrimDockerIO(MapGet(m, platformKey)),
                      Spec |-> [OS |-> platform.Platform.OS,
                                Architecture |-> platform.Platform.Architecture,
                                Variant |-> platform.Platform.Variant]]>>
              ELSE <<>>) \o BuildPlatformStates(m, Tail(platforms))

(***************************************************************************)
(* Specification SpecAssemble: the assembler on the results of every       *)
(* platform list within the bounds.                                        *)
(***************************************************************************)
\* The image being patched and the tag its patched platforms are given
ImageRef == <<"docker.io/", "library/golang", ":", "1.22">>
PatchedTag == <<"docker.io/", "library/golang", ":", "1.22", "-patched">>

\* The platforms of the image as discovery leaves them: a Windows platform
\* has no report (report platforms are all linux), so it is preserved.
AsmPlatformChoices ==
    {PatchPlatform(Platform(linux, "amd64", "", ""), <<"reports", "/", "amd64.json">>, FALSE),
     PatchPlatform(Platform(linux, "amd64", "", ""), <<>>, TRUE),
     PatchPlatform(Platform(linux, arm64, "", ""), <<"reports", "/", "arm64.json">>, FALSE),
     PatchPlatform(Platform(linux, arm64, "", ""), <<>>, TRUE),
     PatchPlatform(Platform(linux, "arm", "v7", ""), <<>>, TRUE),
     PatchPlatform(Platform("windows", "amd64", "", "10.0.20348"), <<>>, TRUE)}

DistinctKeys(platforms) ==
    \A i, j \in 1..Len(platforms) :
        PlatformKey(platforms[i].Platform) = PlatformKey(platforms[j].Platform) => i = j

\* The result of one platform: a preserved platform keeps the original
\* reference; a platform with a report gets the patched tag with its
\* platform suffix, or the original reference when nothing was patched.
ResultChoices(platform) ==
    {[OriginalRef |-> ImageRef, PatchedRef |-> ImageRef, Platform |-> platform.Platform]}
    \cup (IF platform.ShouldPreserve
          THEN {}
          ELSE {[OriginalRef |-> ImageRef,
                 PatchedRef |-> PatchedTag \o getPlatformSuffix(platform.Platform),
                 Platform |-> platform.Platform]})

\* One result per platform, in any order
ResultLists(platforms) ==
    {rs \in [1..Len(platforms) -> UNION {ResultChoices(platforms[i]) : i \in 1..Len(platforms)}] :
        \E perm \in [1..Len(platforms) -> 1..Len(platforms)] :
            /\ \A i, j \in 1..Len(platforms) : perm[i] = perm[j] => i = j
            /\ \A i \in 1..Len(platforms) : rs[i] \in ResultChoices(platforms[perm[i]])}

AsmInit ==
    /\ NjIdle
    /\ OciIdle
    /\ MfIdle
    /\ SrIdle
    /\ StIdle
    /\ DkIdle
    /\ RsIdle
    /\ MtIdle
    /\ BpIdle
    /\ FxIdle
    /\ ParseIdle
    /\ NpmIdle
    /\ DiscIdle
    /\ asmPlatforms \in {ps \in SeqsUpTo(AsmPlatformChoices, MaxPlatforms) : DistinctKeys(ps)}
    /\ asmResults \in ResultLists(asmPlatforms)
    /\ asmMkdirOK \in BOOLEAN
    /\ asmClientOK \in BOOLEAN
    /\ platformImages = <<>>
    /\ platformStates = <<>>
    /\ asmErr = ""
    /\ asmPc = "CreateOCILayoutFromResults"

\* Lines 730-774, up to the call of createMultiPlatformOCIWithBuildx
AsmCreateOCILayoutFromResults ==
    /\ asmPc = "CreateOCILayoutFromResults"
    /\ IF ~asmMkdirOK
       THEN /\ asmErr' = "failed to create output directory"
            /\ asmPc' = "returned"
            /\ UNCHANGED platformImages
       ELSE LET m == BuildPlatformImages(<<>>, asmResults, asmPlatforms, 1)
            IN  /\ platformImages' = m
                /\ IF Len(m) = 0
                   THEN asmErr' = "no platform images found" /\ asmPc' = "returned"
                   ELSE asmErr' = "" /\ asmPc' = "createOCILayoutWithBuildKitClient"
    /\ UNCHANGED <<asmResults, asmPlatforms, asmMkdirOK, asmClientOK, platformStates>>
    /\ UNCHANGED <<fxVars, parseVars, npmVars, discVars, bpVars, mtVars, rsVars, stVars, dkVars, njVars, ociVars, mfVars, srVars>>

\* Lines 777-842, up to the call of solveMultiPlatformOCI
AsmCreateOCILayoutWithBuildKitClient ==
    /\ asmPc = "createOCILayoutWithBuildKitClient"
    /\ IF ~asmClientOK
       THEN /\ asmErr' = "failed to create BuildKit client"
            /\ asmPc' = "returned"
            /\ UNCHANGED platformStates
       ELSE LET sts == BuildPlatformStates(platformImages, asmPlatforms)
            IN  /\ platformStates' = sts
                /\ IF Len(sts) = 0
                   THEN asmErr' = "no platform states created" /\ asmPc' = "returned"
                   ELSE asmErr' = "" /\ asmPc' = "solveMultiPlatformOCI"
    /\ UNCHANGED <<asmResults, asmPlatforms, asmMkdirOK, asmClientOK, platformImages>>
    /\ UNCHANGED <<fxVars, parseVars, npmVars, discVars, bpVars, mtVars, rsVars, stVars, dkVars, njVars, ociVars, mfVars, srVars>>

AsmNext == AsmCreateOCILayoutFromResults \/ AsmCreateOCILayoutWithBuildKitClient

SpecAssemble == AsmInit /\ [][AsmNext]_vars

\* The reference the result produced for a platform carries: its patched
\* reference, which is the original reference when the platform was preserved
ReferenceFor(pl) ==
    (CHOOSE r \in {asmResults[i] : i \in 1..Len(asmResults)} : r.Platform = pl).PatchedRef

\* C2: every platform is mapped to the reference of the result produced for
\* it (never to one produced for another platform), and the states submitted
\* for export hold every platform of the list exactly once.
EveryPlatformGetsItsOwnReference ==
    asmPc = "solveMultiPlatformOCI" =>
        /\ \A i \in 1..Len(asmPlatforms) :
               LET key == PlatformKey(asmPlatforms[i].Platform)
               IN  /\ MapHas(platformImages, key)
                   /\ MapGet(platformImages, key) = ReferenceFor(asmPlatforms[i].Platform)
        /\ Len(platformStates) = Len(asmPlatforms)
        /\ \A i \in 1..Len(asmPlatforms) :
               /\ platformStates[i].Spec.OS = asmPlatforms[i].Platform.OS
               /\ platformStates[i].Spec.Architecture = asmPlatforms[i].Platform.Architecture
               /\ platformStates[i].Spec.Variant = asmPlatforms[i].Platform.Variant
               /\ platformStates[i].Image =
                      TrimDockerIO(ReferenceFor(asmPlatforms[i].Platform))

(***************************************************************************)
(* pkg/frontend: Frontend.buildPatchedImage                                *)
(*                                                                         *)
(* The function is followed call by call: bpPc is the call it is about to  *)
(* make and bpTrace the calls to the report parser and the package manager *)
(* it has made.                                                            *)
(***************************************************************************)
jsonExt == ".json"

\* Lines 44-48: the platform-specific report file name
PlatformFile(platform) ==
    <<platform.OS, "-", platform.Architecture>>
    \o (IF platform.Variant # "" THEN <<"-", platform.Variant>> ELSE <<>>)
    \o <<jsonExt>>

\* A plausible slip: a platform without a report file is not skipped, and
\* the function goes on as if no report had been given.
ResolveReportNoSkip(reportPath, platform, isDir, dirFiles) ==
    IF reportPath # <<>> /\ platform # <<>> /\ isDir
    THEN IF PlatformFile(platform[1]) \in dirFiles
         THEN [Skip |-> FALSE, Parse |-> TRUE,
               ReportPath |-> reportPath \o <<"/">> \o PlatformFile(platform[1])]
         ELSE [Skip |-> FALSE, Parse |-> FALSE, ReportPath |-> reportPath]
    ELSE [Skip |-> FALSE, Parse |-> reportPath # <<>>, ReportPath |-> reportPath]

\* Lines 37-61: which report is parsed, if any. The platform pointer is <<>>
\* when nil. Skip: the platform has no report file in the directory and the
\* function returns config.ImageState; Parse: a report is to be parsed.
ResolveReport(reportPath, platform, isDir, dirFiles) ==
    IF reportPath # <<>> /\ platform # <<>> /\ isDir
    THEN IF PlatformFile(platform[1]) \in dirFiles
         THEN [Skip |-> FALSE, Parse |-> TRUE,
               ReportPath |-> reportPath \o <<"/">> \o PlatformFile(platform[1])]
         ELSE [Skip |-> TRUE, Parse |-> FALSE, ReportPath |-> reportPath]
    ELSE [Skip |-> FALSE, Parse |-> reportPath # <<>>, ReportPath |-> reportPath]

\* The parser's error for a report with no result section of a supported
\* class (trivy.go, line 150)
ErrNoPatchableResults == "no scanning results for os-pkgs or node-pkg found"

\* report.TryParseScanReport on the resolved path: a directory cannot be
\* read as a report; a file gives what its parser gives.
TryParseScanReport(reportPath, isFile, parsed) ==
    IF ~isFile THEN [Err |-> "read: is a directory", Manifest |-> <<>>] ELSE parsed

\* A plausible slip: a report without patchable results is passed through as
\* a success instead of failing the build.
AfterParsePassThrough(parsed, imageState) ==
    IF parsed.Err = ErrNoPatchableResults
    THEN [Return |-> TRUE, State |-> imageState, Err |-> ""]
    ELSE IF parsed.Err # ""
    THEN [Return |-> TRUE, State |-> <<>>, Err |-> "failed to parse vulnerability report"]
    ELSE [Return |-> FALSE, State |-> <<>>, Err |-> ""]

\* Lines 68-71: any parser error ends the function with llb.State{} and the
\* wrapped error.
AfterParse(parsed, imageState) ==
    IF parsed.Err # ""
    THEN [Return |-> TRUE, State |-> <<>>, Err |-> "failed to parse vulnerability report"]
    ELSE [Return |-> FALSE, State |-> <<>>, Err |-> ""]

\* Line 75: a parsed manifest without updates
NoPackagesToUpdate(um) ==
    um # <<>> /\ Len(um[1].OSUpdates) = 0 /\ Len(um[1].LangUpdates) = 0

\* The packages of a manifest
ManifestPackages(um) ==
    IF um = <<>> THEN {}
    ELSE {um[1].OSUpdates[i] : i \in 1..Len(um[1].OSUpdates)}
         \cup {um[1].LangUpdates[i] : i \in 1..Len(um[1].LangUpdates)}

\* The sequence of the elements of a set of package names, in a fixed order
RECURSIVE SeqOf(_)
SeqOf(S) ==
    IF S = {} THEN <<>>
    ELSE LET x == CHOOSE y \in S : TRUE IN <<x>> \o SeqOf(S \ {x})

\* pm.InstallUpdates of the package manager set up for the image: a nil or
\* empty manifest is a no-op; a package that cannot be updated is an error
\* when ignoreErrors is false and an entry of the failure list when it is
\* true; fatal is a failure that ignoreErrors does not cover.
PMInstallUpdates(imageState, um, ignoreErrors, cannotUpdate, fatal) ==
    LET failed == ManifestPackages(um) \cap cannotUpdate
    IN  IF ManifestPackages(um) = {}
        THEN [State |-> imageState, ErrPkgs |-> <<>>, Err |-> ""]
        ELSE IF fatal
        THEN [State |-> <<>>, ErrPkgs |-> <<>>, Err |-> "install failed"]
        ELSE IF failed # {} /\ ~ignoreErrors
        THEN [State |-> <<>>, ErrPkgs |-> SeqOf(failed), Err |-> "partial update failure"]
        ELSE [State |-> LLBRun(imageState, "install updates"),
              ErrPkgs |-> SeqOf(failed), Err |-> ""]

\* Lines 81-90: what buildPatchedImage returns after pm.InstallUpdates. The
\* failure list is assigned to the blank identifier; the function returns a
\* state and an error, so its result carries no failed package.
AfterInstall(installed, imageState, ignoreError) ==
    IF installed.Err # ""
    THEN IF ignoreError
         THEN [State |-> imageState, Err |-> "", FailedPackages |-> <<>>]
         ELSE [State |-> <<>>, Err |-> "failed to install package updates",
               FailedPackages |-> <<>>]
    ELSE [State |-> installed.State, Err |-> "", FailedPackages |-> <<>>]

\* config.ImageState of the image being patched
BpImageState == LLBImage("docker.io/library/nginx:1.21")

(***************************************************************************)
(* Specification SpecPipeline: buildPatchedImage for one platform, on      *)
(* every report location, parser answer and package manager answer.        *)
(***************************************************************************)
BpPlatforms ==
    {<<>>,
     <<[OS |-> linux, Architecture |-> "amd64", Variant |-> ""]>>,
     <<[OS |-> linux, Architecture |-> arm64, Variant |-> "v8"]>>}

BpReportFiles ==
    {<<linux, "-", "amd64", jsonExt>>, <<linux, "-", arm64, "-", "v8", jsonExt>>}

BpManifests ==
    {<<[OSUpdates |-> o, LangUpdates |-> l]>> :
        o \in {<<>>, <<"openssl">>, <<"openssl", "zlib">>}, l \in {<<>>, <<"lodash">>}}

BpParserAnswers ==
    {[Err |-> ErrNoPatchableResults, Manifest |-> <<>>],
     [Err |-> "unsupported report format", Manifest |-> <<>>]}
    \cup {[Err |-> "", Manifest |-> m] : m \in BpManifests}

BpInit ==
    /\ NjIdle
    /\ OciIdle
    /\ MfIdle
    /\ SrIdle
    /\ StIdle
    /\ DkIdle
    /\ RsIdle
    /\ MtIdle
    /\ FxIdle
    /\ ParseIdle
    /\ NpmIdle
    /\ DiscIdle
    /\ AsmIdle
    /\ \E r \in {<<>>, <<"report.json">>, <<"reports">>} :
           /\ bpOpts \in {[Report |-> r, IgnoreError |-> b] : b \in BOOLEAN}
           /\ bpIsDir = (r = <<"reports">>)
           /\ IF r = <<"reports">>
              THEN bpDirFiles \in SUBSET BpReportFiles
              ELSE bpDirFiles = {}
    /\ bpPlatform \in BpPlatforms
    /\ bpSetupOK \in BOOLEAN
    /\ bpParsed \in BpParserAnswers
    /\ bpCannotUpdate \in SUBSET {"openssl", "lodash"}
    /\ bpFatal \in BOOLEAN
    /\ bpReportPath = <<>>
    /\ bpUm = <<>>
    /\ bpTrace = <<>>
    /\ bpResult = [State |-> <<>>, Err |-> "", FailedPackages |-> <<>>]
    /\ bpPc = "setup"

\* Line 68: the parser's answer for reportPath, which is a file unless it is
\* still the directory of opts.Report
BpParserAnswer ==
    TryParseScanReport(bpReportPath, ~bpIsDir \/ bpReportPath # bpOpts.Report, bpParsed)

\* Line 81: the package manager's answer for um
BpInstalled ==
    PMInstallUpdates(BpImageState, bpUm, bpOpts.IgnoreError, bpCannotUpdate, bpFatal)

BpReturn(result) ==
    /\ bpResult' = result
    /\ bpPc' = "returned"

\* Lines 30-33
BpSetup ==
    /\ bpPc = "setup"
    /\ IF bpSetupOK
       THEN bpPc' = "resolve" /\ UNCHANGED bpResult
       ELSE BpReturn([State |-> <<>>, FailedPackages |-> <<>>,
                      Err |-> "failed to set up buildkit config and package manager"])
    /\ UNCHANGED <<bpInputs, bpReportPath, bpUm, bpTrace>>
    /\ UNCHANGED <<fxVars, parseVars, npmVars, discVars, asmVars, mtVars, rsVars, stVars, dkVars, njVars, ociVars, mfVars, srVars>>

\* Lines 36-61
BpResolve ==
    /\ bpPc = "resolve"
    /\ LET r == ResolveReport(bpOpts.Report, bpPlatform, bpIsDir, bpDirFiles)
       IN  /\ bpReportPath' = r.ReportPath
           /\ IF r.Skip
              THEN BpReturn([State |-> BpImageState, Err |-> "", FailedPackages |-> <<>>])
              ELSE /\ bpPc' = IF r.Parse THEN "parse" ELSE "check"
                   /\ UNCHANGED bpResult
    /\ UNCHANGED <<bpInputs, bpUm, bpTrace>>
    /\ UNCHANGED <<fxVars, parseVars, npmVars, discVars, asmVars, mtVars, rsVars, stVars, dkVars, njVars, ociVars, mfVars, srVars>>

\* Lines 63-71
BpParse ==
    /\ bpPc = "parse"
    /\ bpTrace' = Append(bpTrace, "parse")
    /\ LET parsed == BpParserAnswer
           next == AfterParse(parsed, BpImageState)
       IN  IF next.Return
           THEN /\ BpReturn([State |-> next.State, Err |-> next.Err, FailedPackages |-> <<>>])
                /\ UNCHANGED bpUm
           ELSE /\ bpUm' = parsed.Manifest
                /\ bpPc' = "check"
                /\ UNCHANGED bpResult
    /\ UNCHANGED <<bpInputs, bpReportPath>>
    /\ UNCHANGED <<fxVars, parseVars, npmVars, discVars, asmVars, mtVars, rsVars, stVars, dkVars, njVars, ociVars, mfVars, srVars>>

\* Lines 74-78
BpCheck ==
    /\ bpPc = "check"
    /\ IF NoPackagesToUpdate(bpUm)
       THEN BpReturn([State |-> BpImageState, Err |-> "", FailedPackages |-> <<>>])
       ELSE bpPc' = "install" /\ UNCHANGED bpResult
    /\ UNCHANGED <<bpInputs, bpReportPath, bpUm, bpTrace>>
    /\ UNCHANGED <<fxVars, parseVars, npmVars, discVars, asmVars, mtVars, rsVars, stVars, dkVars, njVars, ociVars, mfVars, srVars>>

\* Lines 80-90
BpInstall ==
    /\ bpPc = "install"
    /\ bpTrace' = Append(bpTrace, "install")
    /\ BpReturn(AfterInstall(BpInstalled, BpImageState, bpOpts.IgnoreError))
    /\ UNCHANGED <<bpInputs, bpReportPath, bpUm>>
    /\ UNCHANGED <<fxVars, parseVars, npmVars, discVars, asmVars, mtVars, rsVars, stVars, dkVars, njVars, ociVars, mfVars, srVars>>

BpNext == BpSetup \/ BpResolve \/ BpParse \/ BpCheck \/ BpInstall

SpecPipeline == BpInit /\ [][BpNext]_vars

\* The platform has no matching report: the report location is a directory
\* without a file for the platform
NoMatchingReport ==
    /\ bpOpts.Report # <<>>
    /\ bpPlatform # <<>>
    /\ bpIsDir
    /\ PlatformFile(bpPlatform[1]) \notin bpDirFiles

\* The function returned a patched state
PatchedOutcome ==
    /\ bpPc = "returned"
    /\ bpResult.Err = ""
    /\ bpResult.State \notin {<<>>, BpImageState}

\* C3: a platform without a matching report is never parsed and never handed
\* to the package manager, and once set-up succeeded it ends with the original
\* image state and no error; with a report, the package manager is invoked
\* only after the report was parsed, and a patched outcome is reached only
\* by parsing and then installing.
PipelineOrdering ==
    /\ NoMatchingReport =>
           /\ bpTrace = <<>>
           /\ bpPc = "returned" /\ bpSetupOK =>
                  bpResult = [State |-> BpImageState, Err |-> "", FailedPackages |-> <<>>]
    /\ bpOpts.Report # <<>> =>
           /\ \A i \in 1..Len(bpTrace) :
                  bpTrace[i] = "install" => \E j \in 1..(i - 1) : bpTrace[j] = "parse"
           /\ PatchedOutcome => bpTrace = <<"parse", "install">>

PipelineOrderingWitness ==
    /\ NoMatchingReport
    /\ bpSetupOK
    /\ bpPc = "returned"
    /\ bpResult.State = BpImageState

\* The report parser was invoked and failed because the report has no result
\* section of a supported class, and the function has returned
ParserFoundNoPatchableResults ==
    /\ bpPc = "returned"
    /\ bpTrace = <<"parse">>
    /\ BpParserAnswer.Err = ErrNoPatchableResults

FailedPackagesReported ==
    (bpPc = "returned" /\ Len(bpTrace) > 0 /\ bpTrace[Len(bpTrace)] = "install"
        /\ BpInstalled.ErrPkgs # <<>>) =>
        IF bpOpts.IgnoreError
        THEN bpResult.Err = "" /\ bpResult.FailedPackages = BpInstalled.ErrPkgs
        ELSE bpResult.Err # "" /\ ~PatchedOutcome

(***************************************************************************)
(* pkg/pkgmgr/scripts/apt_get_download_all_pkgs.sh: the status.d split     *)
(* loop (lines 47-88). A line is the sequence of its words and spaces; the *)
(* empty line is <<>>. The output directory is a sequence of files, each a  *)
(* name and the lines written to it.                                       *)
(***************************************************************************)
\* case "$line" in "Package:"*)
IsPackageLine(line) == Len(line) > 0 /\ line[1] = "Package:"

\* cut -d' ' -f2: the second space-separated field, or the whole line when
\* it has no space
CutField2(line) ==
    LET fields == Split(line, " ")
    IN  IF Len(fields) = 1 THEN line ELSE fields[2]

\* echo "$package_content" >"$OUTPUT_DIR/$name": the file is created, or
\* replaced when the directory already has one of that name
WriteFragment(files, name, content) ==
    IF \E k \in 1..Len(files) : files[k].Name = name
    THEN [k \in 1..Len(files) |->
             IF files[k].Name = name THEN [Name |-> name, Content |-> content] ELSE files[k]]
    ELSE Append(files, [Name |-> name, Content |-> content])

\* Lines 55-59
OutputName(package_name) ==
    IF package_name = <<"base-files">> THEN <<"base">> ELSE package_name

\* Lines 50-88: the loop from line i on, then the handling of the last block
RECURSIVE SplitStatus(_, _, _, _, _)
SplitStatus(lines, i, package_name, package_content, files) ==
    IF i > Len(lines)
    THEN IF package_name # <<>> /\ package_content # <<>>
         THEN WriteFragment(files, package_name, package_content)
         ELSE files
    ELSE LET line == lines[i]
         IN  IF line = <<>>
             THEN SplitStatus(lines, i + 1, <<>>, <<>>,
                              IF package_name # <<>>
                              THEN WriteFragment(files, OutputName(package_name),
                                                 package_content)
                              ELSE files)
             ELSE SplitStatus(lines, i + 1,
                              IF IsPackageLine(line) THEN CutField2(line) ELSE package_name,
                              Append(package_content, line), files)

(***************************************************************************)
(* Specification SpecSplit: the split loop on every status file of up to   *)
(* MaxLines lines.                                                         *)
(***************************************************************************)
StatusLines ==
    {<<>>,
     <<"Package:", " ", "base-files">>,
     <<"Package:", " ", "libc6">>,
     <<"Version:", " ", "1">>,
     <<"Architecture:", " ", "i386">>}

StInit ==
    /\ SrIdle
    /\ MfIdle
    /\ OciIdle
    /\ NjIdle
    /\ FxIdle
    /\ ParseIdle
    /\ NpmIdle
    /\ DiscIdle
    /\ AsmIdle
    /\ BpIdle
    /\ MtIdle
    /\ RsIdle
    /\ DkIdle
    /\ stLines \in SeqsUpTo(StatusLines, MaxLines)
    /\ stFragments = <<>>
    /\ stPc = "split"

StSplit ==
    /\ stPc = "split"
    /\ stFragments' = SplitStatus(stLines, 1, <<>>, <<>>, <<>>)
    /\ stPc' = "done"
    /\ UNCHANGED stLines
    /\ UNCHANGED <<fxVars, parseVars, npmVars, discVars, asmVars, bpVars, mtVars, rsVars, dkVars, njVars, ociVars, mfVars, srVars>>

StNext == StSplit

SpecSplit == StInit /\ [][StNext]_vars

\* The blocks of a status file: its maximal runs of non-empty lines
RECURSIVE BlocksFrom(_, _, _)
BlocksFrom(lines, i, block) ==
    IF i > Len(lines)
    THEN IF block # <<>> THEN <<block>> ELSE <<>>
    ELSE IF lines[i] = <<>>
    THEN (IF block # <<>> THEN <<block>> ELSE <<>>) \o BlocksFrom(lines, i + 1, <<>>)
    ELSE BlocksFrom(lines, i + 1, Append(block, lines[i]))

Blocks(lines) == BlocksFrom(lines, 1, <<>>)

HasPackageField(block) == \E i \in 1..Len(block) : IsPackageLine(block[i])

\* The package a block is of: the value of its Package: field
PackageOf(block) ==
    block[CHOOSE i \in 1..Len(block) :
              IsPackageLine(block[i]) /\ \A j \in (i + 1)..Len(block) : ~IsPackageLine(block[j])][3]

PackageBlocks(lines) == SelectSeq(Blocks(lines), HasPackageField)

FragmentNames == {stFragments[k].Name : k \in 1..Len(stFragments)}

\* C18: every block with a Package: field has a fragment named after the
\* field, the block of base-files having the fragment named base and never
\* one named base-files, wherever the block stands in the file.
FragmentNamedAfterPackage ==
    stPc = "done" =>
        /\ \A k \in 1..Len(PackageBlocks(stLines)) :
               LET name == <<PackageOf(PackageBlocks(stLines)[k])>>
               IN  IF name = <<"base-files">>
                   THEN <<"base">> \in FragmentNames
                   ELSE name \in FragmentNames
        /\ <<"base-files">> \notin FragmentNames

\* C19: the fragments hold the blocks of the status file that have a
\* Package: field, each with its lines unchanged, one fragment per block.
FragmentsRoundTrip ==
    stPc = "done" =>
        /\ {stFragments[k].Content : k \in 1..Len(stFragments)}
               = {PackageBlocks(stLines)[k] : k \in 1..Len(PackageBlocks(stLines))}
        /\ Len(stFragments) = Len(PackageBlocks(stLines))

(***************************************************************************)
(* pkg/pkgmgr/scripts/apt_get_download_all_pkgs.sh as a whole: download,   *)
(* install into the scratch root, split, manifest, exit.                   *)
(***************************************************************************)
\* Lines 1-5: with IGNORE_ERRORS=true the script runs under "set -x" and a
\* failed command is passed over; otherwise under "set -ex" and a failed
\* command ends the script with its status.
EndsScript(ignoreErrors, status) == ~ignoreErrors /\ status # 0

\* The exit status of a command that fails on a non-empty set of packages
StatusOn(failedOn) == IF failedOn # {} THEN 1 ELSE 0

\* The verification of the result manifest by the caller: a package asked
\* for that the manifest does not list is recorded as failed.
RecordFailed(packages, manifest) == packages \ manifest

(***************************************************************************)
(* Specification SpecDpkg                                                  *)
(***************************************************************************)
DpkgPackages == {"libssl3", "zlib1g"}

DkInit ==
    /\ FxIdle
    /\ ParseIdle
    /\ NpmIdle
    /\ DiscIdle
    /\ AsmIdle
    /\ BpIdle
    /\ MtIdle
    /\ RsIdle
    /\ NjIdle
    /\ OciIdle
    /\ MfIdle
    /\ SrIdle
    /\ StIdle
    /\ dkIgnoreErrors \in BOOLEAN
    /\ dkPackages \in (SUBSET DpkgPackages) \ {{}}
    /\ dkDownloadFails \in SUBSET dkPackages
    /\ dkInstallFails \in SUBSET dkPackages
    /\ dkWriteFails \in SUBSET dkPackages
    /\ dkDebs = {}
    /\ dkInstalled = {}
    /\ dkFragments = {}
    /\ dkManifest = {}
    /\ dkTrace = <<>>
    /\ dkExit = 0
    /\ dkFailed = {}
    /\ dkPc = "download"

DkStep(name, status, next) ==
    /\ dkTrace' = Append(dkTrace, name)
    /\ IF EndsScript(dkIgnoreErrors, status)
       THEN dkExit' = status /\ dkPc' = "exited"
       ELSE dkExit' = dkExit /\ dkPc' = next

\* Lines 37-38: apt-get download of all the packages in one command. When it
\* fails on a package it leaves the archives of the others, or none at all.
DkDownload ==
    /\ dkPc = "download"
    /\ \/ dkDebs' = dkPackages \ dkDownloadFails
       \/ dkDownloadFails # {} /\ dkDebs' = {}
    /\ DkStep("download", StatusOn(dkDownloadFails), "install")
    /\ UNCHANGED <<dkInputs, dkInstalled, dkFragments, dkManifest, dkFailed>>
    /\ UNCHANGED <<fxVars, parseVars, npmVars, discVars, asmVars, bpVars, mtVars, rsVars, stVars, njVars, ociVars, mfVars, srVars>>

\* Lines 39-40: dpkg --install *.deb into the scratch root; without an
\* archive the pattern stays as it is and dpkg fails on it.
DkInstall ==
    /\ dkPc = "install"
    /\ dkInstalled' = dkDebs \ dkInstallFails
    /\ DkStep("install",
              IF dkDebs = {} THEN 2 ELSE StatusOn(dkDebs \cap dkInstallFails), "split")
    /\ UNCHANGED <<dkInputs, dkDebs, dkFragments, dkManifest, dkFailed>>
    /\ UNCHANGED <<fxVars, parseVars, npmVars, discVars, asmVars, bpVars, mtVars, rsVars, stVars, njVars, ociVars, mfVars, srVars>>

\* Lines 42-88: the fragments of the installed packages
DkSplit ==
    /\ dkPc = "split"
    /\ dkFragments' = dkInstalled \ dkWriteFails
    /\ DkStep("split", StatusOn(dkInstalled \cap dkWriteFails), "manifest")
    /\ UNCHANGED <<dkInputs, dkDebs, dkInstalled, dkManifest, dkFailed>>
    /\ UNCHANGED <<fxVars, parseVars, npmVars, discVars, asmVars, bpVars, mtVars, rsVars, stVars, njVars, ociVars, mfVars, srVars>>

\* Lines 90-102: the manifest lists the package of every archive in the
\* working directory; then exit 0.
DkManifest ==
    /\ dkPc = "manifest"
    /\ dkManifest' = dkDebs
    /\ dkTrace' = Append(dkTrace, "manifest")
    /\ dkExit' = 0
    /\ dkPc' = "exited"
    /\ UNCHANGED <<dkInputs, dkDebs, dkInstalled, dkFragments, dkFailed>>
    /\ UNCHANGED <<fxVars, parseVars, npmVars, discVars, asmVars, bpVars, mtVars, rsVars, stVars, njVars, ociVars, mfVars, srVars>>

\* The caller's record of the run, once the script has exited with status 0
DkRecord ==
    /\ dkPc = "exited"
    /\ dkExit = 0
    /\ dkFailed' = RecordFailed(dkPackages, dkManifest)
    /\ dkPc' = "recorded"
    /\ UNCHANGED <<dkInputs, dkDebs, dkInstalled, dkFragments, dkManifest, dkTrace, dkExit>>
    /\ UNCHANGED <<fxVars, parseVars, npmVars, discVars, asmVars, bpVars, mtVars, rsVars, stVars, njVars, ociVars, mfVars, srVars>>

DkNext == DkDownload \/ DkInstall \/ DkSplit \/ DkManifest \/ DkRecord

SpecDpkg == DkInit /\ [][DkNext]_vars

\* The steps that ran and failed
DkFailedSteps ==
    {n \in {dkTrace[i] : i \in 1..Len(dkTrace)} :
        \/ n = "download" /\ dkDownloadFails # {}
        \/ n = "install" /\ (dkDebs = {} \/ dkDebs \cap dkInstallFails # {})
        \/ n = "split" /\ dkInstalled \cap dkWriteFails # {}}

\* The run is over: the script failed, or its result is recorded
DkOver == dkPc = "recorded" \/ (dkPc = "exited" /\ dkExit # 0)

\* Without ignoreErrors, a failed step is the last step run and the script
\* exits with a failure.
DpkgAbortsOnFailure ==
    (~dkIgnoreErrors /\ DkFailedSteps # {}) =>
        /\ dkTrace[Len(dkTrace)] \in DkFailedSteps
        /\ Cardinality(DkFailedSteps) = 1
        /\ dkPc = "exited"
        /\ dkExit # 0

\* C20: without ignoreErrors a failure of the download, install or split
\* step ends the run with a failure and no later step; with ignoreErrors the
\* run goes through all its steps and its result records as failed every
\* package asked for that has no fragment.
DpkgFailurePolicy ==
    /\ DpkgAbortsOnFailure
    /\ (dkIgnoreErrors /\ DkOver) =>
           /\ dkPc = "recorded"
           /\ dkTrace = <<"download", "install", "split", "manifest">>
           /\ dkFailed = dkPackages \ dkFragments

(***************************************************************************)
(* The Node manager in the filesystem of one image: the npm step of        *)
(* InstallUpdates (pkg/pkgmgr/npm.go) and the scripts detect-nodejs-apps,  *)
(* update-nodejs-package and cleanup-nodejs-apps (pkg/pkgmgr/scripts).     *)
(*                                                                         *)
(* A directory is the sequence of the components of its path ("/" is       *)
(* <<>>). A filesystem names the directories that exist, those that hold   *)
(* a package.json and those that hold a package-lock.json.                 *)
(***************************************************************************)
\* The directories of the loops of update-nodejs-package.sh and
\* cleanup-nodejs-apps.sh
AppLocations ==
    << <<"app">>, <<"usr", "src", "app">>, <<"opt", "app">>, <<"workspace">> >>

\* The directories of the first loop of detect-nodejs-apps.sh
CommonLocations == AppLocations \o << <<>> >>

\* [ -f "$dir/package.json" ] && [ -f "$dir/package-lock.json" ]
HasManifestAndLock(fs, dir) == dir \in fs.PackageJson /\ dir \in fs.Lock

\* echo "$dir" | grep -q "node_modules"
GrepNodeModules(dir) == \E i \in 1..Len(dir) : dir[i] = "node_modules"

\* head -10
HeadLimit == 10

FirstLines(lines, n) == SubSeq(lines, 1, IF Len(lines) < n THEN Len(lines) ELSE n)

\* The first loop of detect-nodejs-apps.sh: the locations it appends
DetectCommon(fs) ==
    SelectSeq(CommonLocations,
              LAMBDA dir : HasManifestAndLock(fs, dir) /\ ~GrepNodeModules(dir))

\* find / -name "package.json" -type f | grep -v node_modules | head -10,
\* each line cut to its directory
FindCandidates(find) ==
    FirstLines(SelectSeq(find, LAMBDA dir : ~GrepNodeModules(dir)), HeadLimit)

\* A plausible slip: the broader search keeps every candidate, with or
\* without a package-lock.json.
DetectBroaderNoLock(fs, find) == FindCandidates(find)

\* The second loop of detect-nodejs-apps.sh: the locations it appends
DetectBroader(fs, find) ==
    SelectSeq(FindCandidates(find), LAMBDA dir : dir \in fs.Lock)

\* One npm command, run after "cd dir"
NpmCommand(cmd, dir, name, version) ==
    [Cmd |-> cmd, Dir |-> dir, Package |-> name, Version |-> version]

\* grep -q "\"$PACKAGE_NAME\"" package.json: the name between double quotes
\* on any line of the file, in the dependencies or elsewhere
GrepsPackageName(pkgJson, name) == name \in pkgJson.Dependencies \cup pkgJson.Keywords

\* update-nodejs-package.sh for one package: the npm command of each
\* location it enters. The status tested after "npm install ... | tee" is
\* tee's, so the script goes on whatever npm answers.
UpdateNodejsPackage(fs, pkgJson, name, version) ==
    LET dirs == SelectSeq(AppLocations,
                          LAMBDA dir : HasManifestAndLock(fs, dir) /\ ~GrepNodeModules(dir))
    IN  [i \in 1..Len(dirs) |->
            IF GrepsPackageName(pkgJson, name)
            THEN NpmCommand("install --save-exact", dirs[i], name, version)
            ELSE NpmCommand("update", dirs[i], name, "")]

\* cleanup-nodejs-apps.sh: the two npm commands of each location it enters
RECURSIVE CleanupFrom(_, _)
CleanupFrom(fs, i) ==
    IF i > Len(AppLocations) THEN <<>>
    ELSE (IF HasManifestAndLock(fs, AppLocations[i]) /\ ~GrepNodeModules(AppLocations[i])
          THEN << NpmCommand("install --package-lock-only", AppLocations[i], "", ""),
                  NpmCommand("cache clean --force", AppLocations[i], "", "") >>
          ELSE <<>>)
         \o CleanupFrom(fs, i + 1)

CleanupNodejsApps(fs) == CleanupFrom(fs, 1)

\* The step InstallUpdates appends, once the build engine runs it:
\* sh -c "cd /app && npm audit fix --force && npm cache clean --force || true".
\* cd fails when /app does not exist; npm audit fix fails without a lock file.
AuditFixStep(fs) ==
    IF <<"app">> \notin fs.Dirs THEN <<>>
    ELSE << NpmCommand("audit fix --force", <<"app">>, "", "") >>
         \o (IF HasManifestAndLock(fs, <<"app">>)
             THEN << NpmCommand("cache clean --force", <<"app">>, "", "") >>
             ELSE <<>>)

\* The order in which the manager runs the scripts: detection, then the
\* update script once per package, then the cleanup script; nothing more when
\* detection found no location.
PatchOrder(pc, found, nextPkg, nPkgs) ==
    CASE pc = "detect" -> IF found THEN "update" ELSE "done"
      [] pc = "update" -> IF nextPkg < nPkgs THEN "update" ELSE "cleanup"
      [] OTHER -> "done"

(***************************************************************************)
(* Specification SpecNode: one run of the Node manager on every image and  *)
(* package list within the bounds                                          *)
(***************************************************************************)
NodeDirs ==
    {<<>>, <<"app">>, <<"usr", "src", "app">>, <<"opt", "app">>, <<"workspace">>,
     <<"srv", "api">>, <<"app", "node_modules", "lodash">>}

\* What a directory holds: nothing of interest, a package.json, or a
\* package.json and a package-lock.json
NodeLayouts ==
    {l \in [NodeDirs -> {"absent", "dir", "manifest", "both"}] :
        /\ l[<<>>] \in {"dir", "both"}
        /\ l[<<"usr", "src", "app">>] \in {"absent", "both"}
        /\ l[<<"opt", "app">>] \in {"absent", "both"}
        /\ l[<<"workspace">>] = "absent"
        /\ l[<<"srv", "api">>] # "dir"
        /\ l[<<"app", "node_modules", "lodash">>] \in {"absent", "both"}
        /\ l[<<"app", "node_modules", "lodash">>] # "absent" => l[<<"app">>] # "absent"}

\* Packages of the image that ship a package.json without a lock file
FillerNames == <<"p1", "p2", "p3", "p4", "p5", "p6", "p7", "p8", "p9", "p10">>

Fillers == {<<"usr", "share", FillerNames[i]>> : i \in 1..Len(FillerNames)}

NodeFs(l, fillers) ==
    [Dirs |-> {d \in NodeDirs : l[d] # "absent"} \cup fillers,
     PackageJson |-> {d \in NodeDirs : l[d] \in {"manifest", "both"}} \cup fillers,
     Lock |-> {d \in NodeDirs : l[d] = "both"}]

NodeImages == {NodeFs(l, f) : l \in NodeLayouts, f \in {{}, Fillers}}

\* What find prints in the image: the directories that hold a package.json,
\* in one of the orders of the directory tree
FindOrder ==
    << <<>>, <<"app">>, <<"app", "node_modules", "lodash">>, <<"opt", "app">>,
       <<"srv", "api">>, <<"usr", "share", "p1">>, <<"usr", "share", "p2">>,
       <<"usr", "share", "p3">>, <<"usr", "share", "p4">>, <<"usr", "share", "p5">>,
       <<"usr", "share", "p6">>, <<"usr", "share", "p7">>, <<"usr", "share", "p8">>,
       <<"usr", "share", "p9">>, <<"usr", "share", "p10">>, <<"usr", "src", "app">>,
       <<"workspace">> >>

Reversed(seq) == [i \in 1..Len(seq) |-> seq[Len(seq) + 1 - i]]

FindOutputs(fs) ==
    LET printed == SelectSeq(FindOrder, LAMBDA dir : dir \in fs.PackageJson)
    IN  {printed, Reversed(printed)}

NodePackageNames == {"lodash", "@scope/name"}

\* package.json files: what they declare as dependencies, and what else they
\* name between quotes
PackageJsons ==
    {[Dependencies |-> {}, Keywords |-> {}],
     [Dependencies |-> {"lodash"}, Keywords |-> {}],
     [Dependencies |-> {"lodash", "@scope/name"}, Keywords |-> {}],
     [Dependencies |-> {}, Keywords |-> {"lodash"}]}

NodeUpdateLists ==
    {u \in SeqsUpTo([Name : NodePackageNames, FixedVersion : {"4.17.21"}], MaxUpdates) :
        /\ u # <<>>
        /\ \A i, j \in 1..Len(u) : u[i].Name = u[j].Name => i = j}

NjInit ==
    /\ FxIdle
    /\ ParseIdle
    /\ NpmIdle
    /\ DiscIdle
    /\ AsmIdle
    /\ BpIdle
    /\ MtIdle
    /\ RsIdle
    /\ OciIdle
    /\ MfIdle
    /\ SrIdle
    /\ StIdle
    /\ DkIdle
    /\ njFs \in NodeImages
    /\ njFind \in FindOutputs(njFs)
    /\ njPkgJson \in PackageJsons
    /\ njUpdates \in NodeUpdateLists
    /\ njMode \in {"step", "scripts"}
    /\ njLocations = <<>>
    /\ njSearched = FALSE
    /\ njCandidates = <<>>
    /\ njNextPkg = 1
    /\ njTrace = <<>>
    /\ njExit = 0
    /\ njPc = IF njMode = "step" THEN "step" ELSE "detect"

njInputs == <<njFs, njFind, njPkgJson, njUpdates, njMode>>

NjOthers ==
    <<fxVars, parseVars, npmVars, discVars, asmVars, bpVars, mtVars, rsVars, stVars, dkVars,
      ociVars, mfVars, srVars>>

\* The build engine runs the step of InstallUpdates.
NjAuditFix ==
    /\ njPc = "step"
    /\ njTrace' = njTrace \o AuditFixStep(njFs)
    /\ njPc' = "done"
    /\ UNCHANGED <<njInputs, njLocations, njSearched, njCandidates, njNextPkg, njExit>>
    /\ UNCHANGED NjOthers

\* detect-nodejs-apps.sh, lines 44-55
NjDetectCommon ==
    /\ njPc = "detect"
    /\ njLocations' = DetectCommon(njFs)
    /\ njPc' = IF njLocations' = <<>> THEN "search"
               ELSE PatchOrder("detect", TRUE, njNextPkg, Len(njUpdates))
    /\ UNCHANGED <<njInputs, njSearched, njCandidates, njNextPkg, njTrace, njExit>>
    /\ UNCHANGED NjOthers

\* detect-nodejs-apps.sh, lines 57-75
NjDetectBroader ==
    /\ njPc = "search"
    /\ njSearched' = TRUE
    /\ njCandidates' = FindCandidates(njFind)
    /\ njLocations' = DetectBroader(njFs, njFind)
    /\ njExit' = 0
    /\ njPc' = PatchOrder("detect", njLocations' # <<>>, njNextPkg, Len(njUpdates))
    /\ UNCHANGED <<njInputs, njNextPkg, njTrace>>
    /\ UNCHANGED NjOthers

\* update-nodejs-package.sh for the next package
NjUpdatePackage ==
    /\ njPc = "update"
    /\ njTrace' = njTrace \o UpdateNodejsPackage(njFs, njPkgJson, njUpdates[njNextPkg].Name,
                                                 njUpdates[njNextPkg].FixedVersion)
    /\ njPc' = PatchOrder("update", TRUE, njNextPkg, Len(njUpdates))
    /\ njNextPkg' = njNextPkg + 1
    /\ UNCHANGED <<njInputs, njLocations, njSearched, njCandidates, njExit>>
    /\ UNCHANGED NjOthers

\* cleanup-nodejs-apps.sh
NjCleanup ==
    /\ njPc = "cleanup"
    /\ njTrace' = njTrace \o CleanupNodejsApps(njFs)
    /\ njPc' = PatchOrder("cleanup", TRUE, njNextPkg, Len(njUpdates))
    /\ UNCHANGED <<njInputs, njLocations, njSearched, njCandidates, njNextPkg, njExit>>
    /\ UNCHANGED NjOthers

NjNext == NjAuditFix \/ NjDetectCommon \/ NjDetectBroader \/ NjUpdatePackage \/ NjCleanup

SpecNode == NjInit /\ [][NjNext]_vars

\* The application roots of an image
ApplicationRoots(fs) ==
    {dir \in fs.Dirs : HasManifestAndLock(fs, dir) /\ ~GrepNodeModules(dir)}

\* C21: every directory in which an npm command has run is an application
\* root: it holds package.json and package-lock.json and no component of its
\* path is node_modules.
NpmRunsOnlyInApplicationRoots ==
    \A i \in 1..Len(njTrace) : njTrace[i].Dir \in ApplicationRoots(njFs)

\* The npm commands run in a directory, as positions of njTrace
CommandsIn(dir, cmds) ==
    {i \in 1..Len(njTrace) : njTrace[i].Dir = dir /\ njTrace[i].Cmd \in cmds}

Pinned(dir, u) ==
    \E i \in CommandsIn(dir, {"install --save-exact"}) :
        njTrace[i].Package = u.Name /\ njTrace[i].Version = u.FixedVersion

ScriptsDone == njMode = "scripts" /\ njPc = "done"

\* C22: once the manager is done, in every application root a target
\* package declared as a dependency in package.json has been pinned to its
\* fixed version (npm install name@version --save-exact), and a target
\* package that is not declared has not been pinned.
NodeUpdateStrategy ==
    ScriptsDone =>
        \A dir \in ApplicationRoots(njFs) : \A k \in 1..Len(njUpdates) :
            IF njUpdates[k].Name \in njPkgJson.Dependencies
            THEN Pinned(dir, njUpdates[k])
            ELSE ~Pinned(dir, njUpdates[k])

Range(seq) == {seq[i] : i \in 1..Len(seq)}

InOrderOf(seq, order) ==
    \A i, j \in 1..Len(seq) : i < j => IndexOf(order, seq[i]) < IndexOf(order, seq[j])

ConsolidatingPassPerRoot ==
    ScriptsDone =>
        \A dir \in Range(njLocations) :
            LET regen == CommandsIn(dir, {"install --package-lock-only"})
                clean == CommandsIn(dir, {"cache clean --force"})
                updates == CommandsIn(dir, {"install --save-exact", "update"})
            IN  /\ Cardinality(regen) = 1
                /\ Cardinality(clean) = 1
                /\ \A r \in regen : \A c \in clean : r < c
                /\ \A r \in regen : \A u \in updates : u < r

(***************************************************************************)
(* pkg/buildkit: solveMultiPlatformOCI and extractOCITar                   *)
(*                                                                         *)
(* A directory on disk is [Exists, Entries]; an entry is a path below the  *)
(* directory (the sequence of its components), a type, its mode bits and   *)
(* whether its content was written completely. The staging archive         *)
(* outputDir + ".tar" is "absent", "partial" or "complete".                *)
(***************************************************************************)
Mode0755 == {"ur", "uw", "ux", "gr", "gx", "or", "ox"}
Mode0644 == {"ur", "uw", "gr", "or"}
Mode0600 == {"ur", "uw"}
Mode0444 == {"ur", "gr", "or"}

\* The file mode creation mask of the process: os.MkdirAll and os.OpenFile
\* create with their perm argument less these bits (022).
Umask == {"gw", "ow"}

NoDir == [Exists |-> FALSE, Entries |-> {}]

DiskEntry(path, type, mode, complete) ==
    [Path |-> path, Type |-> type, Mode |-> mode, Complete |-> complete]

PathsOf(entries) == {e.Path : e \in entries}

\* filepath.Dir and above: the proper, non-empty prefixes of a path
Ancestors(path) == {SubSeq(path, 1, k) : k \in 1..(Len(path) - 1)}

\* os.MkdirAll(path, perm) below the output directory: the directories
\* missing on the way are made, those that exist are left as they are
MkdirAll(entries, path, perm) ==
    entries \cup
    {DiskEntry(p, "dir", perm \ Umask, TRUE) :
        p \in (Ancestors(path) \cup (IF path = <<>> THEN {} ELSE {path})) \ PathsOf(entries)}

\* os.OpenFile(path, O_CREATE|O_RDWR|O_TRUNC, perm) and io.Copy: a new file
\* gets perm less the umask, a file that exists is emptied and keeps its mode
WriteFile(entries, path, perm, complete) ==
    IF path \in PathsOf(entries)
    THEN {IF e.Path = path THEN [e EXCEPT !.Complete = complete] ELSE e : e \in entries}
    ELSE entries \cup {DiskEntry(path, "reg", perm \ Umask, complete)}

FailsAt(fail, at, k) == fail.At = at /\ fail.Entry = k

\* The loop of extractOCITar from entry k on (lines 974-1010)
RECURSIVE ExtractFrom(_, _, _, _)
ExtractFrom(entries, archive, k, fail) ==
    IF k > Len(archive) THEN [Entries |-> entries, Err |-> ""]
    ELSE IF FailsAt(fail, "read", k)
    THEN [Entries |-> entries, Err |-> "failed to read tar header"]
    ELSE IF FailsAt(fail, "mkdir", k)
    THEN [Entries |-> entries, Err |-> "failed to create directory"]
    ELSE LET header == archive[k]
             made == MkdirAll(entries, SubSeq(header.Name, 1, Len(header.Name) - 1), Mode0755)
         IN  IF header.Typeflag = "dir"
             THEN ExtractFrom(MkdirAll(made, header.Name, header.Mode), archive, k + 1, fail)
             ELSE IF header.Typeflag = "reg"
             THEN IF FailsAt(fail, "write", k)
                  THEN [Entries |-> WriteFile(made, header.Name, header.Mode, FALSE),
                        Err |-> "failed to copy content"]
                  ELSE ExtractFrom(WriteFile(made, header.Name, header.Mode, TRUE),
                                   archive, k + 1, fail)
             ELSE ExtractFrom(made, archive, k + 1, fail)

\* extractOCITar(tarPath, outputDir), lines 957-1013
extractOCITar(tar, dir, archive, fail) ==
    IF FailsAt(fail, "mkdirout", 0) THEN [Dir |-> dir, Err |-> "failed to create output directory"]
    ELSE LET out == [Exists |-> TRUE, Entries |-> dir.Entries]
         IN  IF tar = "absent" \/ FailsAt(fail, "open", 0)
             THEN [Dir |-> out, Err |-> "failed to open tar file"]
             ELSE LET x == ExtractFrom(out.Entries, archive, 1, fail)
                  IN  [Dir |-> [Exists |-> TRUE, Entries |-> x.Entries], Err |-> x.Err]

\* A plausible slip: the output directory is not emptied before the export.
RemoveAllKeeps(dir) == dir

\* os.RemoveAll(outputDir), line 853
RemoveAll(dir) == NoDir

\* c.Build with the OCI exporter writing to outputDir + ".tar" (lines
\* 857-941): what becomes of the staging archive, and the error
Build(tar, fail) ==
    IF FailsAt(fail, "create", 0) THEN [Tar |-> tar, Err |-> "BuildKit build failed"]
    ELSE IF FailsAt(fail, "build", 0) THEN [Tar |-> "partial", Err |-> "BuildKit build failed"]
    ELSE [Tar |-> "complete", Err |-> ""]

\* solveMultiPlatformOCI, lines 845-954
solveMultiPlatformOCI(dir, tar, nStates, archive, fail) ==
    IF nStates = 0 THEN [Dir |-> dir, Tar |-> tar, Err |-> "no platform states provided"]
    ELSE LET cleared == RemoveAll(dir)
             built == Build(tar, fail)
         IN  IF built.Err # "" THEN [Dir |-> cleared, Tar |-> built.Tar, Err |-> built.Err]
             ELSE LET x == extractOCITar(built.Tar, cleared, archive, fail)
                  IN  IF x.Err # ""
                      THEN [Dir |-> x.Dir, Tar |-> built.Tar, Err |-> "failed to extract OCI tar"]
                      ELSE [Dir |-> x.Dir, Tar |-> "absent", Err |-> ""]

(***************************************************************************)
(* Specification SpecExport: solveMultiPlatformOCI on every archive,       *)
(* earlier output directory and failure within the bounds, and once more   *)
(* with the same arguments after a call that succeeded                     *)
(***************************************************************************)
MaxEntries == 4

TarHeader(name, typeflag, mode) == [Name |-> name, Typeflag |-> typeflag, Mode |-> mode]

\* The entries of an OCI layout archive, as the OCI exporter writes them
LayoutEntries ==
    << TarHeader(<<"blobs", "sha256">>, "dir", Mode0755),
       TarHeader(<<"blobs", "sha256", "4a1c">>, "reg", Mode0444),
       TarHeader(<<"index.json">>, "reg", Mode0644),
       TarHeader(<<"oci-layout">>, "reg", Mode0644),
       TarHeader(<<"blobs", "sha256", "9f0e">>, "reg", Mode0444) >>

\* The first MaxEntries of them, in every order
Archives ==
    LET n == IF MaxEntries < Len(LayoutEntries) THEN MaxEntries ELSE Len(LayoutEntries)
    IN  {Permute(SubSeq(LayoutEntries, 1, n), f) : f \in Reorderings(n)}

\* What the output directory holds before the call
PriorDirs ==
    {NoDir,
     [Exists |-> TRUE, Entries |-> {}],
     [Exists |-> TRUE, Entries |-> {DiskEntry(<<"stale">>, "reg", Mode0644, TRUE)}],
     [Exists |-> TRUE,
      Entries |-> {DiskEntry(<<"index.json">>, "reg", Mode0600, TRUE),
                   DiskEntry(<<"blobs">>, "dir", Mode0755, TRUE),
                   DiskEntry(<<"blobs", "old">>, "reg", Mode0444, TRUE)}]}

Failures(archive) ==
    {[At |-> at, Entry |-> 0] : at \in {"none", "create", "build", "mkdirout", "open"}}
    \cup {[At |-> at, Entry |-> k] : at \in {"read", "mkdir", "write"}, k \in 1..Len(archive)}

OciOthers ==
    <<fxVars, parseVars, npmVars, discVars, asmVars, bpVars, mtVars, rsVars, stVars, dkVars,
      njVars, mfVars, srVars>>

OciInit ==
    /\ FxIdle
    /\ ParseIdle
    /\ NpmIdle
    /\ DiscIdle
    /\ AsmIdle
    /\ BpIdle
    /\ MtIdle
    /\ RsIdle
    /\ MfIdle
    /\ SrIdle
    /\ StIdle
    /\ DkIdle
    /\ NjIdle
    /\ ociArchive \in Archives
    /\ ociFail \in Failures(ociArchive)
    /\ ociStates \in IF ociFail.At = "none" THEN {0, 2} ELSE {2}
    /\ ociPrior \in PriorDirs
    /\ ociDir = ociPrior
    /\ ociTar = "absent"
    /\ ociFirst = NoDir
    /\ ociErr = ""
    /\ ociPc = "call"

OciSolve ==
    /\ ociPc = "call"
    /\ LET r == solveMultiPlatformOCI(ociDir, ociTar, ociStates, ociArchive, ociFail)
       IN  /\ ociDir' = r.Dir
           /\ ociTar' = r.Tar
           /\ ociErr' = r.Err
           /\ ociFirst' = r.Dir
    /\ ociPc' = "once"
    /\ UNCHANGED <<ociStates, ociPrior, ociArchive, ociFail>>
    /\ UNCHANGED OciOthers

\* The same call again, after one that succeeded
OciSolveAgain ==
    /\ ociPc = "once"
    /\ ociErr = ""
    /\ LET r == solveMultiPlatformOCI(ociDir, ociTar, ociStates, ociArchive, ociFail)
       IN  /\ ociDir' = r.Dir
           /\ ociTar' = r.Tar
           /\ ociErr' = r.Err
    /\ ociPc' = "twice"
    /\ UNCHANGED <<ociStates, ociPrior, ociArchive, ociFail, ociFirst>>
    /\ UNCHANGED OciOthers

OciNext == OciSolve \/ OciSolveAgain

SpecExport == OciInit /\ [][OciNext]_vars

ArchiveNames(typeflag) ==
    {ociArchive[k].Name : k \in {i \in 1..Len(ociArchive) : ociArchive[i].Typeflag = typeflag}}

AllArchiveNames == ArchiveNames("reg") \cup ArchiveNames("dir")

Assembled == ociPc \in {"once", "twice"} /\ ociStates > 0 /\ ociErr = ""

AssemblyFailureLeavesNothing ==
    (ociPc \in {"once", "twice"} /\ ociStates > 0 /\ ociErr # "") =>
        /\ ociDir.Entries = {}
        /\ ociTar = "absent"

(***************************************************************************)
(* pkg/manifest: DiscoverPlatforms, discoverReportsInDirectory and         *)
(* findPatchablePlatforms                                                  *)
(*                                                                         *)
(* A file name is the sequence of its pieces: the literal "report-", runs  *)
(* of lower-case letters and digits, "-", and extensions.                  *)
(***************************************************************************)
\* The names [a-z]+ matches in full, and those [a-z0-9]+ matches in full
LowerWords == {"linux", "windows"}
AlnumWords == LowerWords \cup {"amd64", "arm64", "v8"}

\* reportFileRegex.FindStringSubmatch(filename) for the expression
\* report-([a-z]+)-([a-z0-9]+)\.json, which is not anchored: the leftmost
\* match and its two groups, or <<>>
FindStringSubmatch(filename) ==
    LET at(i) == /\ i + 4 <= Len(filename)
                 /\ filename[i] = "report-"
                 /\ filename[i + 1] \in LowerWords
                 /\ filename[i + 2] = "-"
                 /\ filename[i + 3] \in AlnumWords
                 /\ filename[i + 4] = ".json"
        starts == {i \in 1..Len(filename) : at(i)}
    IN  IF starts = {} THEN <<>>
        ELSE LET i == CHOOSE s \in starts : \A t \in starts : s <= t
             IN  <<SubSeq(filename, i, i + 4), filename[i + 1], filename[i + 3]>>

\* fmt.Sprintf("%s/%s", os, arch)
OsArchKey(os, arch) == <<os, "/", arch>>

\* The loop of discoverReportsInDirectory (lines 242-259) from entry k on:
\* the map platform key -> report path, as a sequence of pairs
RECURSIVE ReportsFrom(_, _, _, _)
ReportsFrom(reports, reportDir, entries, k) ==
    IF k > Len(entries) THEN reports
    ELSE LET entry == entries[k]
             matches == FindStringSubmatch(entry.Name)
         IN  IF entry.IsDir \/ Len(matches) < 3
             THEN ReportsFrom(reports, reportDir, entries, k + 1)
             ELSE ReportsFrom(MapPut(reports, OsArchKey(matches[2], matches[3]),
                                     <<reportDir, entry.Name>>),
                              reportDir, entries, k + 1)

\* discoverReportsInDirectory, lines 217-262
discoverReportsInDirectory(dir) ==
    IF dir.Path = "" THEN [Reports |-> <<>>, Err |-> "report directory not specified"]
    ELSE IF dir.Kind = "missing" THEN [Reports |-> <<>>, Err |-> "accessing report directory"]
    ELSE IF dir.Kind # "dir" THEN [Reports |-> <<>>, Err |-> "is not a directory"]
    ELSE [Reports |-> ReportsFrom(<<>>, dir.Path, dir.Entries, 1), Err |-> ""]

\* A plausible slip: every platform of the image is returned, with the path
\* of its report when there is one.
findPatchablePlatformsAll(subManifests, availableReports) ==
    [i \in 1..Len(subManifests) |->
        LET platformKey == OsArchKey(subManifests[i].OS, subManifests[i].Arch)
        IN  IF MapHas(availableReports, platformKey)
            THEN [subManifests[i] EXCEPT !.ReportPath = MapGet(availableReports, platformKey)]
            ELSE subManifests[i]]

\* findPatchablePlatforms, lines 265-278
findPatchablePlatforms(subManifests, availableReports) ==
    LET has(platform) == MapHas(availableReports, OsArchKey(platform.OS, platform.Arch))
        kept == SelectSeq(subManifests, has)
    IN  [i \in 1..Len(kept) |->
            [kept[i] EXCEPT
                !.ReportPath = MapGet(availableReports, OsArchKey(kept[i].OS, kept[i].Arch))]]

\* manifest.DiscoverPlatforms, lines 124-141
ManifestDiscoverPlatforms(image, dir) ==
    IF image.Err # ""
    THEN [Platforms |-> <<>>, Err |-> "failed to discover platforms from image"]
    ELSE LET r == discoverReportsInDirectory(dir)
         IN  IF r.Err # ""
             THEN [Platforms |-> <<>>, Err |-> "failed to discover reports in directory"]
             ELSE [Platforms |-> findPatchablePlatforms(image.Platforms, r.Reports), Err |-> ""]

(***************************************************************************)
(* Specification SpecManifest: DiscoverPlatforms on every image and report *)
(* directory within the bounds                                             *)
(***************************************************************************)
TypesPlatform(os, arch, variant, digest) ==
    [OS |-> os, Arch |-> arch, Variant |-> variant, Digest |-> digest, ReportPath |-> <<>>]

SubManifests ==
    {TypesPlatform("linux", "amd64", "", "sha256:amd64digest"),
     TypesPlatform("linux", "arm64", "v8", "sha256:arm64digest"),
     TypesPlatform("linux", "arm64", "", "sha256:arm64plain"),
     TypesPlatform("windows", "amd64", "", "sha256:winamd64digest")}

DirEntry(name, isDir) == [Name |-> name, IsDir |-> isDir]

\* The entries a report directory may hold, in the order os.ReadDir lists
\* them (by file name)
ReportDirEntries ==
    << DirEntry(<<"old-", "report-", "linux", "-", "amd64", ".json", ".bak">>, FALSE),
       DirEntry(<<"other-file", ".txt">>, FALSE),
       DirEntry(<<"report-", "linux", "-", "amd64", ".json">>, FALSE),
       DirEntry(<<"report-", "linux", "-", "arm64", "-", "v8", ".json">>, FALSE),
       DirEntry(<<"report-", "linux", "-", "arm64", ".json">>, FALSE),
       DirEntry(<<"report-", "windows", "-", "amd64", ".json">>, TRUE),
       DirEntry(<<"subdir">>, TRUE) >>

ReportDirs ==
    {[Path |-> "", Kind |-> "dir", Entries |-> <<>>],
     [Path |-> "reports", Kind |-> "missing", Entries |-> <<>>],
     [Path |-> "reports", Kind |-> "file", Entries |-> <<>>]}
    \cup {[Path |-> "reports", Kind |-> "dir",
           Entries |-> SelectSeq(ReportDirEntries, LAMBDA e : e \in held)] :
             held \in SUBSET Range(ReportDirEntries)}

ImageAnswers ==
    {[Platforms |-> <<>>, Err |-> "fetching descriptor"]}
    \cup {[Platforms |-> p, Err |-> ""] :
            p \in {q \in SeqsUpTo(SubManifests, MaxPlatforms) :
                      \A i, j \in 1..Len(q) : q[i] = q[j] => i = j}}

MfOthers ==
    <<fxVars, parseVars, npmVars, discVars, asmVars, bpVars, mtVars, rsVars, stVars, dkVars,
      njVars, ociVars, srVars>>

MfInit ==
    /\ FxIdle
    /\ ParseIdle
    /\ NpmIdle
    /\ DiscIdle
    /\ AsmIdle
    /\ BpIdle
    /\ MtIdle
    /\ RsIdle
    /\ SrIdle
    /\ StIdle
    /\ DkIdle
    /\ NjIdle
    /\ OciIdle
    /\ mfImage \in ImageAnswers
    /\ mfReportDir \in ReportDirs
    /\ mfOut = [Platforms |-> <<>>, Err |-> ""]
    /\ mfPc = "call"

MfDiscoverPlatforms ==
    /\ mfPc = "call"
    /\ mfOut' = ManifestDiscoverPlatforms(mfImage, mfReportDir)
    /\ mfPc' = "returned"
    /\ UNCHANGED <<mfImage, mfReportDir>>
    /\ UNCHANGED MfOthers

MfNext == MfDiscoverPlatforms

SpecManifest == MfInit /\ [][MfNext]_vars

\* The files of the report directory that are reports of a platform key
ReportFilesFor(os, arch) ==
    {k \in 1..Len(mfReportDir.Entries) :
        LET e == mfReportDir.Entries[k]
            matches == FindStringSubmatch(e.Name)
        IN  /\ ~e.IsDir
            /\ matches # <<>>
            /\ matches[2] = os
            /\ matches[3] = arch}

HasReportFile(platform) == ReportFilesFor(platform.OS, platform.Arch) # {}

\* C26: DiscoverPlatforms returns the image platforms whose os/arch key has
\* a report file in the directory, in image order, each with its digest and
\* with the path of a report file of its key; a platform without one is not
\* returned, and subdirectories and files whose names do not match the
\* pattern give no report.
PatchablePlatformsReturned ==
    (mfPc = "returned" /\ mfOut.Err = "") =>
        LET expected == SelectSeq(mfImage.Platforms, HasReportFile)
        IN  /\ Len(mfOut.Platforms) = Len(expected)
            /\ \A i \in 1..Len(expected) :
                  /\ [mfOut.Platforms[i] EXCEPT !.ReportPath = <<>>] = expected[i]
                  /\ \E k \in ReportFilesFor(expected[i].OS, expected[i].Arch) :
                        mfOut.Platforms[i].ReportPath
                            = <<mfReportDir.Path, mfReportDir.Entries[k].Name>>

\* C26 witness: the image has linux/amd64 and windows/amd64, the directory
\* holds a report file for linux/amd64, a subdirectory named as the report
\* of windows/amd64 and a file that is no report, and linux/amd64 alone is
\* returned.
PatchablePlatformsWitness ==
    /\ mfPc = "returned"
    /\ mfOut.Err = ""
    /\ Len(mfImage.Platforms) = 2
    /\ mfImage.Platforms[2].OS = "windows"
    /\ DirEntry(<<"report-", "windows", "-", "amd64", ".json">>, TRUE) \in Range(mfReportDir.Entries)
    /\ DirEntry(<<"other-file", ".txt">>, FALSE) \in Range(mfReportDir.Entries)
    /\ Len(mfOut.Platforms) = 1
    /\ mfOut.Platforms[1].Digest = "sha256:amd64digest"
    /\ mfOut.Platforms[1].ReportPath = <<"reports", <<"report-", "linux", "-", "amd64", ".json">> >>

(***************************************************************************)
(* apt_get_download_all_pkgs.sh run for two platforms at once: the paths   *)
(* each command of the script reads, writes and deletes                    *)
(***************************************************************************)
SrPlatforms == {"linux/amd64", "linux/arm64"}

\* The scratch root the script of a platform works in: /tmp/debian-rootfs,
\* written out in every command, whatever the platform
ScratchRoot(platform) == <<"tmp", "debian-rootfs">>

AdminDir(platform) == ScratchRoot(platform) \o <<"var", "lib", "dpkg">>

Access(op, path) == [Op |-> op, Path |-> path]

\* The commands of the script that touch the scratch root, in order, each
\* with its accesses
ScriptCommands(platform) ==
    << \* line 31: cp -r /var/lib/dpkg/* /tmp/debian-rootfs/var/lib/dpkg/
       << Access("write", AdminDir(platform) \o <<"status">>) >>,
       \* lines 39-40: dpkg --root=/tmp/debian-rootfs --install, --configure
       << Access("read", AdminDir(platform) \o <<"status">>),
          Access("write", AdminDir(platform) \o <<"status">>) >>,
       \* lines 43-88: the status file split into status.d
       << Access("read", AdminDir(platform) \o <<"status">>),
          Access("write", AdminDir(platform) \o <<"status.d">>) >>,
       \* line 91: find ... ! -name "status.d" -exec rm -rf {} +
       << Access("delete", AdminDir(platform) \o <<"status">>) >>,
       \* lines 94-96: >> /tmp/debian-rootfs/manifest
       << Access("write", ScratchRoot(platform) \o <<"manifest">>) >> >>

SrPaths ==
    UNION {{ScriptCommands(p)[k][i].Path : i \in 1..Len(ScriptCommands(p)[k])} :
              p \in SrPlatforms, k \in 1..5}

\* The disk after a command of a platform: a written path is that
\* platform's, a deleted path is nobody's
RECURSIVE DiskAfter(_, _, _, _)
DiskAfter(disk, platform, accesses, i) ==
    IF i > Len(accesses) THEN disk
    ELSE DiskAfter(
            CASE accesses[i].Op = "write" -> [disk EXCEPT ![accesses[i].Path] = platform]
              [] accesses[i].Op = "delete" -> [disk EXCEPT ![accesses[i].Path] = "none"]
              [] OTHER -> disk,
            platform, accesses, i + 1)

\* What a command's accesses add to the record: the platform, the access and
\* whose file it found at the path
Touched(disk, platform, accesses) ==
    [i \in 1..Len(accesses) |->
        [Platform |-> platform, Op |-> accesses[i].Op, Path |-> accesses[i].Path,
         Found |-> DiskAfter(disk, platform, accesses, i)[accesses[i].Path]]]

SrOthers ==
    <<fxVars, parseVars, npmVars, discVars, asmVars, bpVars, mtVars, rsVars, stVars, dkVars,
      njVars, ociVars, mfVars>>

SrInit ==
    /\ FxIdle
    /\ ParseIdle
    /\ NpmIdle
    /\ DiscIdle
    /\ AsmIdle
    /\ BpIdle
    /\ MtIdle
    /\ RsIdle
    /\ StIdle
    /\ DkIdle
    /\ NjIdle
    /\ OciIdle
    /\ MfIdle
    /\ srDisk = [path \in SrPaths |-> "none"]
    /\ srPc = [p \in SrPlatforms |-> 1]
    /\ srTrace = <<>>

\* The next command of one platform's script
SrCommand ==
    \E p \in SrPlatforms :
        /\ srPc[p] <= Len(ScriptCommands(p))
        /\ LET accesses == ScriptCommands(p)[srPc[p]]
           IN  /\ srTrace' = srTrace \o Touched(srDisk, p, accesses)
               /\ srDisk' = DiskAfter(srDisk, p, accesses, 1)
        /\ srPc' = [srPc EXCEPT ![p] = srPc[p] + 1]
        /\ UNCHANGED SrOthers

SrNext == SrCommand

SpecScratch == SrInit /\ [][SrNext]_vars

IsUnder(path, root) == Len(path) >= Len(root) /\ SubSeq(path, 1, Len(root)) = root

\* C27: the two platforms have distinct scratch roots, and no command of a
\* platform reads, writes or deletes a path under the scratch root of the
\* other.
ScratchRootsDisjoint ==
    \A i \in 1..Len(srTrace) : \A q \in SrPlatforms \ {srTrace[i].Platform} :
        /\ ScratchRoot(q) # ScratchRoot(srTrace[i].Platform)
        /\ ~IsUnder(srTrace[i].Path, ScratchRoot(q))

(***************************************************************************)
(* Specification SpecFixed: extractAppropriateFixedVersion on every        *)
(* installed version and fixed-version field within the bounds.            *)
(***************************************************************************)
InstalledChars == {"1", "2", "."}
FixedChars == {"1", "2", ".", ",", " "}

FxInit ==
    /\ NjIdle
    /\ OciIdle
    /\ MfIdle
    /\ SrIdle
    /\ StIdle
    /\ DkIdle
    /\ RsIdle
    /\ MtIdle
    /\ BpIdle
    /\ AsmIdle
    /\ ParseIdle
    /\ NpmIdle
    /\ DiscIdle
    /\ fxInstalled \in SeqsUpTo(InstalledChars, MaxInstalledLen)
    /\ fxFixed \in SeqsUpTo(FixedChars, MaxFixedLen)
    /\ fxSelected = <<>>
    /\ fxPc = "call"

FxSelect ==
    /\ fxPc = "call"
    /\ fxSelected' = extractAppropriateFixedVersion(fxInstalled, fxFixed)
    /\ fxPc' = "done"
    /\ UNCHANGED <<fxInstalled, fxFixed>>
    /\ UNCHANGED <<parseVars, npmVars, discVars, asmVars, bpVars, mtVars, rsVars, stVars, dkVars, njVars, ociVars, mfVars, srVars>>

FxNext == FxSelect

SpecFixed == FxInit /\ [][FxNext]_vars

\* The candidates of a fixed-version field: its ","-separated pieces, trimmed.
Candidates(fixed) ==
    LET pieces == Split(fixed, ",")
    IN  [i \in 1..Len(pieces) |-> TrimSpace(pieces[i])]

\* The leading (major) component of a version: what precedes its first ".".
Major(v) == IF Contains(v, ".") THEN SubSeq(v, 1, IndexOf(v, ".") - 1) ELSE v

====
